---- MODULE Spec2Model ----
(***************************************************************************)
(* A model of doxy's core: the authority store (version-aware queries),   *)
(* the import resolver, the analyzer's classification and the finding     *)
(* identifiers.                                                            *)
(*                                                                         *)
(* Strings are sequences of tokens.  A token is either a separator        *)
(* character ("/", ".", ":", "@", a digit) or an identifier-like run of   *)
(* characters that holds no separator ("react", "useState").              *)
(* A version string is the sequence of its numeric components ("18" is    *)
(* <<18>>, "18.2" is <<18, 2>>); a string with no digits is <<>>.          *)
(* An optional value is a sequence of length 0 (absent) or 1 (present).   *)
(***************************************************************************)
EXTENDS Integers, Sequences, FiniteSets, TLC

VARIABLES
  store,       \* the authority store: specs by key, covered packages, data version
  query,       \* the last getApiSpec call, if any
  resolved,    \* what that call returned
  ast,         \* the NormalizedAST handed to the import resolver
  tracked,     \* its trackedPackages filter, if any
  resolution,  \* what resolveImports returned
  analysis,    \* the usage last analyzed, at which version, and its findings
  ids,         \* a finding's identity, its long id, and the long id parsed back
  inline,      \* a source text, its inline suppressions, and the last isLineSuppressed call
  loading,     \* an authority directory and the outcome of loading it
  hashed,      \* the computeContextHash calls made: inputs and digest
  contexts,    \* the RepoContexts built, each with the project it was built from
  depmap,      \* a manifest, lockfile versions, and the dependency map built from them
  lockfile,    \* a package-lock.json and the versions parsed from it
  cache,       \* a cache file, what reading it gave, and what was written back
  tsfiles,     \* the tsconfig files of a root and the outcome of readTsconfig
  names        \* an import source and the package extracted from it

vars == <<store, query, resolved, ast, tracked, resolution, analysis, ids,
          inline, loading, hashed, contexts, depmap, lockfile, cache, tsfiles, names>>

\* ------------------------------------------------------------------ bounds

MaxMajor == 2
MaxDeps == 2
MaxSigs == 2
MaxImports == 2
MaxCalls == 2
MaxSites == 2
MaxLine == 10
MaxDirectiveLines == 3
MaxBlockLines == 4
MaxPackages == 2
MaxEntries == 2
MaxContexts == 2
MaxLockEntries == 3
MaxCacheEntries == 2
MaxSourceLen == 4

Majors == 0..MaxMajor

\* ------------------------------------------------------------ helper values

None == <<>>
Some(x) == <<x>>
IsSome(o) == Len(o) > 0
Get(o) == o[1]

SeqsUpTo(S, n) == UNION {[1..k -> S] : k \in 0..n}

\* ----------------------------------------------------------- semver library

\* semver.coerce: the first numeric components, padded to major.minor.patch;
\* null (here <<>>) when the string holds no number.
SemverCoerce(version) ==
  IF Len(version) = 0 THEN <<>>
  ELSE << version[1],
          IF Len(version) >= 2 THEN version[2] ELSE 0,
          IF Len(version) >= 3 THEN version[3] ELSE 0 >>

SemverCompare(a, b) ==
  IF a[1] # b[1] THEN (IF a[1] < b[1] THEN -1 ELSE 1)
  ELSE IF a[2] # b[2] THEN (IF a[2] < b[2] THEN -1 ELSE 1)
  ELSE IF a[3] # b[3] THEN (IF a[3] < b[3] THEN -1 ELSE 1)
  ELSE 0

SemverLt(a, b) == SemverCompare(a, b) < 0
SemverGt(a, b) == SemverCompare(a, b) > 0
SemverGte(a, b) == SemverCompare(a, b) >= 0
SemverLte(a, b) == SemverCompare(a, b) <= 0

\* One comparator of a parsed range.
ComparatorTest(c, v) ==
  CASE c.op = ">=" -> SemverGte(v, c.v)
    [] c.op = ">"  -> SemverGt(v, c.v)
    [] c.op = "<"  -> SemverLt(v, c.v)
    [] c.op = "<=" -> SemverLte(v, c.v)

\* Range.test: every comparator of the set holds ("*" is the empty set).
RangeTest(range, v) == \A i \in 1..Len(range.comps) : ComparatorTest(range.comps[i], v)

\* semver.satisfies: false for a range that does not parse.
SemverSatisfies(v, range) == range.valid /\ RangeTest(range, v)

\* semver.minVersion of a parsed range: 0.0.0 when it satisfies; otherwise the
\* greatest lower comparator (">" bumps the patch), if the range accepts it.
RECURSIVE SetMin(_, _, _)
SetMin(comps, i, acc) ==
  IF i > Len(comps) THEN acc
  ELSE LET c == comps[i]
           compver == IF c.op = ">" THEN <<c.v[1], c.v[2], c.v[3] + 1>> ELSE c.v
       IN IF c.op \in {">", ">="}
          THEN SetMin(comps, i + 1,
                      IF ~IsSome(acc) \/ SemverGt(compver, Get(acc))
                      THEN Some(compver) ELSE acc)
          ELSE SetMin(comps, i + 1, acc)

SemverMinVersion(range) ==
  IF RangeTest(range, <<0, 0, 0>>) THEN Some(<<0, 0, 0>>)
  ELSE LET m == SetMin(range.comps, 1, None)
       IN IF IsSome(m) /\ RangeTest(range, Get(m)) THEN m ELSE None

\* ------------------------------------------------------------ authority store

Key(packageName, exportName) == packageName \o <<"/">> \o exportName

\* The range left out: every coercible version counts as available.
isAvailableAnyVersion(spec, version) == SemverCoerce(version) # <<>>

isAvailable(spec, version) ==
  LET coerced == SemverCoerce(version)
  IN IF coerced = <<>> THEN FALSE
     ELSE SemverSatisfies(coerced, spec.availableIn)

\* A comparison turned around: "the minimum version is below the installed one".
isFutureApiReversed(spec, version) ==
  LET coerced == SemverCoerce(version)
  IN IF coerced = <<>> THEN FALSE
     ELSE LET minVersion == SemverMinVersion(spec.availableIn)
          IN IF ~IsSome(minVersion) THEN FALSE
             ELSE SemverGt(coerced, Get(minVersion))

isFutureApi(spec, version) ==
  LET coerced == SemverCoerce(version)
  IN IF coerced = <<>> THEN FALSE
     ELSE LET minVersion == SemverMinVersion(spec.availableIn)
          IN IF ~IsSome(minVersion) THEN FALSE
             ELSE SemverLt(coerced, Get(minVersion))

\* `until` taken as an inclusive bound (gt where the code has gte).
SignatureAppliesUntilInclusive(sig, coerced) ==
  LET sinceSemver == SemverCoerce(sig.since)
  IN /\ sinceSemver # <<>>
     /\ ~SemverLt(coerced, sinceSemver)
     /\ ~( /\ IsSome(sig.until)
           /\ Get(sig.until) # <<>>
           /\ SemverCoerce(Get(sig.until)) # <<>>
           /\ SemverGt(coerced, SemverCoerce(Get(sig.until))) )

\* The loop body's test of one signature against the coerced version.
SignatureApplies(sig, coerced) ==
  LET sinceSemver == SemverCoerce(sig.since)
  IN /\ sinceSemver # <<>>
     /\ ~SemverLt(coerced, sinceSemver)
     /\ ~( /\ IsSome(sig.until)
           /\ Get(sig.until) # <<>>
           /\ SemverCoerce(Get(sig.until)) # <<>>
           /\ SemverGte(coerced, SemverCoerce(Get(sig.until))) )

\* Whether the loop replaces `best` by `sig`.
TakesOver(sig, best) ==
  \/ ~IsSome(best)
  \/ SemverCoerce(Get(best).since) = <<>>
  \/ SemverGt(SemverCoerce(sig.since), SemverCoerce(Get(best).since))

RECURSIVE SignatureLoop(_, _, _, _)
SignatureLoop(sigs, coerced, i, best) ==
  IF i > Len(sigs) THEN best
  ELSE IF SignatureApplies(sigs[i], coerced) /\ TakesOver(sigs[i], best)
       THEN SignatureLoop(sigs, coerced, i + 1, Some(sigs[i]))
       ELSE SignatureLoop(sigs, coerced, i + 1, best)

\* The version left out: the first signature of the list is the active one.
findActiveSignatureAnyVersion(spec, version) ==
  IF Len(spec.signatures) > 0 THEN Some(spec.signatures[1]) ELSE None

findActiveSignature(spec, version) ==
  LET coerced == SemverCoerce(version)
  IN IF coerced = <<>> THEN None
     ELSE SignatureLoop(spec.signatures, coerced, 1, None)

\* The loop body's test of one deprecation entry against the coerced version.
DeprecationApplies(dep, coerced) ==
  LET sinceSemver == SemverCoerce(dep.since)
  IN sinceSemver # <<>> /\ ~SemverLt(coerced, sinceSemver)

RECURSIVE DeprecationLoop(_, _, _)
DeprecationLoop(deps, coerced, i) ==
  IF i > Len(deps) THEN None
  ELSE IF DeprecationApplies(deps[i], coerced) THEN Some(deps[i])
       ELSE DeprecationLoop(deps, coerced, i + 1)

findActiveDeprecation(spec, version) ==
  LET coerced == SemverCoerce(version)
  IN IF coerced = <<>> THEN None
     ELSE DeprecationLoop(spec.deprecations, coerced, 1)

\* The outcome of a query: "undefined", "resolved", or "threw" (semver.minVersion
\* raises a TypeError on a range that does not parse, and nothing catches it).
NoResult ==
  [tag |-> "none", activeSignature |-> None, activeDeprecation |-> None,
   available |-> FALSE, isFuture |-> FALSE]

getApiSpec(st, packageName, exportName, installedVersion) ==
  LET key == Key(packageName, exportName)
  IN IF key \notin DOMAIN st.specs THEN [NoResult EXCEPT !.tag = "undefined"]
     ELSE LET spec == st.specs[key]
              available == isAvailable(spec, installedVersion)
          IN IF ~available /\ SemverCoerce(installedVersion) # <<>>
                /\ ~spec.availableIn.valid
             THEN [NoResult EXCEPT !.tag = "threw"]
             ELSE [tag |-> "resolved",
                   activeSignature |-> findActiveSignature(spec, installedVersion),
                   activeDeprecation |-> findActiveDeprecation(spec, installedVersion),
                   available |-> available,
                   isFuture |-> ~available /\ isFutureApi(spec, installedVersion)]

RECURSIVE SpecMap(_, _)
SpecMap(apiSpecs, i) ==
  IF i = 0 THEN [k \in {} |-> 0]
  ELSE LET rest == SpecMap(apiSpecs, i - 1)
           key == Key(apiSpecs[i].package, apiSpecs[i].export)
       IN [k \in DOMAIN rest \cup {key} |->
             IF k = key THEN apiSpecs[i] ELSE rest[k]]

createAuthorityStoreFromSpecs(apiSpecs, version) ==
  [specs |-> SpecMap(apiSpecs, Len(apiSpecs)),
   packages |-> {apiSpecs[i].package : i \in 1..Len(apiSpecs)},
   version |-> version]

\* ------------------------------------------------------------- input domains

\* Version strings a query may carry: uncoercible, "a", "a.1".
VersionStrings ==
  {<<>>} \cup {<<a>> : a \in Majors} \cup {<<a, 1>> : a \in Majors}

\* Version strings in the authority data: uncoercible or "a".
DataVersions == {<<>>} \cup {<<a>> : a \in Majors}
CoercibleDataVersions == {<<a>> : a \in Majors}

Comparators == [op : {">=", ">", "<"}, v : {<<a, 0, 0>> : a \in Majors}]

\* "*", one comparator, ">=a <b", and a range string that does not parse.
ValidRanges ==
  {[valid |-> TRUE, comps |-> cs] :
     cs \in {<<>>} \cup {<<c>> : c \in Comparators}
            \cup {<<[op |-> ">=", v |-> <<a, 0, 0>>], [op |-> "<", v |-> <<b, 0, 0>>]>> :
                    a \in Majors, b \in Majors}}
InvalidRange == [valid |-> FALSE, comps |-> <<>>]
Ranges == ValidRanges \cup {InvalidRange}

Deprecations ==
  [since : DataVersions,
   removedIn : {None} \cup {Some(v) : v \in CoercibleDataVersions},
   message : {"deprecated"},
   replacement : {None}]

Signatures ==
  [since : DataVersions,
   until : {None} \cup {Some(v) : v \in CoercibleDataVersions},
   minArity : {1}, maxArity : {1},
   params : {<<[name |-> "x", required |-> TRUE]>>}]

React == <<"react">>
Fn == <<"fn">>
Other == <<"other">>

MakeSpec(range, sigs, deps) ==
  [package |-> React, export |-> Fn, kind |-> "function",
   availableIn |-> range, signatures |-> sigs, deprecations |-> deps]

TestVersion == <<0, 0, 0>>

StoreOf(range, sigs, deps) ==
  createAuthorityStoreFromSpecs(<<MakeSpec(range, sigs, deps)>>, TestVersion)

TheSpec == store.specs[Key(React, Fn)]

\* ------------------------------------------------------------------ actions

\* store.getApiSpec(packageName, exportName, installedVersion)
GetApiSpec ==
  \E e \in {Fn, Other}, v \in VersionStrings :
    /\ query' = Some([package |-> React, export |-> e, version |-> v])
    /\ resolved' = getApiSpec(store, React, e, v)
    /\ UNCHANGED <<names, lockfile, cache, tsfiles, store, ast, tracked, resolution, analysis, ids, inline, loading, hashed, contexts, depmap>>

NextStore == GetApiSpec

InitQuery == query = None /\ resolved = NoResult

EmptyAst == [imports |-> <<>>, callExpressions |-> <<>>, jsxElements |-> <<>>]
NoResolution ==
  [done |-> FALSE, usages |-> <<>>, importedPackages |-> <<>>, unresolvedImports |-> <<>>]
IdleResolver == ast = EmptyAst /\ tracked = None /\ resolution = NoResolution

NoAnalysis == [done |-> FALSE, usage |-> None, version |-> <<>>, findings |-> <<>>]
IdleAnalyzer == analysis = NoAnalysis

NoIds == [input |-> None, text |-> <<>>, parsed |-> None, asked |-> FALSE]
IdleIds == ids = NoIds

NoInline == [source |-> <<>>, parsed |-> FALSE, suppressions |-> <<>>,
             asked |-> None, answer |-> None]
NoLoading == [dir |-> None, outcome |-> "none", error |-> "none", specs |-> <<>>,
              packages |-> {}]
NoDepmap == [manifest |-> None, resolvedVersions |-> <<>>, built |-> FALSE,
             dependencies |-> <<>>]
NoLockfile == [packages |-> None, parsed |-> FALSE, versions |-> <<>>]
NoCache == [file |-> None, outcome |-> "none", store |-> None, written |-> None]
NoTsfiles ==
  [files |-> <<>>, outcome |-> "none", reads |-> <<>>, result |-> <<>>,
   seen |-> {}, path |-> None, frames |-> <<>>, returned |-> <<>>]
NoNames == [source |-> None, done |-> FALSE, package |-> None]
IdleFiles ==
  lockfile = NoLockfile /\ cache = NoCache /\ tsfiles = NoTsfiles /\ names = NoNames

IdleRest ==
  /\ IdleFiles
  /\ inline = NoInline
  /\ loading = NoLoading
  /\ hashed = <<>>
  /\ contexts = <<>>
  /\ depmap = NoDepmap

\* Stores that differ in availableIn and in one deprecation entry.
InitAvailability ==
  /\ \E r \in Ranges, deps \in SeqsUpTo(Deprecations, 1) : store = StoreOf(r, <<>>, deps)
  /\ InitQuery
  /\ IdleResolver /\ IdleAnalyzer /\ IdleIds /\ IdleRest

SpecAvailability == InitAvailability /\ [][NextStore]_vars

\* Whether a list of entries is ordered non-decreasing by `since` (entries whose
\* `since` cannot be coerced are not compared).
OrderedBySince(entries) ==
  \A i, j \in 1..Len(entries) :
    (i < j /\ entries[i].since # <<>> /\ entries[j].since # <<>>)
      => SemverLte(SemverCoerce(entries[i].since), SemverCoerce(entries[j].since))

AvailabilityVariants ==
  {[valid |-> TRUE, comps |-> <<[op |-> ">=", v |-> <<1, 0, 0>>]>>],
   [valid |-> TRUE, comps |-> <<[op |-> "<", v |-> <<MaxMajor, 0, 0>>]>>]}

\* Stores that differ in the deprecation timeline (ordered by `since`, as the
\* authority data is) and in whether the symbol still exists.
InitDeprecation ==
  /\ \E r \in AvailabilityVariants, deps \in SeqsUpTo(Deprecations, MaxDeps) :
        OrderedBySince(deps) /\ store = StoreOf(r, <<>>, deps)
  /\ InitQuery
  /\ IdleResolver /\ IdleAnalyzer /\ IdleIds /\ IdleRest

SpecDeprecation == InitDeprecation /\ [][NextStore]_vars

\* Stores that differ in the signature list (in any order).
InitSignature ==
  /\ \E sigs \in SeqsUpTo(Signatures, MaxSigs) :
        store = StoreOf([valid |-> TRUE, comps |-> <<>>], sigs, <<>>)
  /\ InitQuery
  /\ IdleResolver /\ IdleAnalyzer /\ IdleIds /\ IdleRest

SpecSignature == InitSignature /\ [][NextStore]_vars

\* --------------------------------------------------------- claims: the store

Asked == Get(query)
AskedVersion == SemverCoerce(Asked.version)
Answered == resolved.tag = "resolved"

\* C1: for a coercible version v, activeDeprecation is the deprecation entry with
\* the greatest `since` among the entries with since <= v, and is absent when no
\* entry has since <= v.
AnnouncedBy(dep, v) ==
  dep.since # <<>> /\ SemverLte(SemverCoerce(dep.since), v)

C1_MostRecentDeprecation ==
  (Answered /\ AskedVersion # <<>>) =>
    LET deps == TheSpec.deprecations
        announced == {i \in 1..Len(deps) : AnnouncedBy(deps[i], AskedVersion)}
    IN /\ (resolved.activeDeprecation = None) <=> (announced = {})
       /\ IsSome(resolved.activeDeprecation) =>
            \E i \in announced :
              /\ deps[i] = Get(resolved.activeDeprecation)
              /\ \A j \in announced :
                   SemverLte(SemverCoerce(deps[j].since), SemverCoerce(deps[i].since))

\* C2: for a coercible version v, activeSignature is the signature with the
\* greatest `since` among those with since <= v and (no until, or v < until),
\* `until` being exclusive; it is absent when v lies outside every range.
InSignatureRange(sig, v) ==
  /\ sig.since # <<>>
  /\ SemverLte(SemverCoerce(sig.since), v)
  /\ (sig.until = None \/ SemverLt(v, SemverCoerce(Get(sig.until))))

VersionUniverse == {<<a, b, c>> : a \in Majors, b \in 0..1, c \in 0..1}
RangeVersions(range) ==
  IF range.valid THEN {t \in VersionUniverse : RangeTest(range, t)} ELSE {}
BelowAll(v, S) == S # {} /\ \A t \in S : SemverLt(v, t)

\* C3: available is true exactly when v is in availableIn; isFuture is true
\* exactly when available is false and v is below the minimum version of
\* availableIn; the two are never both true.
C3_AvailableOrFuture ==
  Answered =>
    LET inRange == AskedVersion # <<>>
                     /\ AskedVersion \in RangeVersions(TheSpec.availableIn)
        below == AskedVersion # <<>>
                     /\ BelowAll(AskedVersion, RangeVersions(TheSpec.availableIn))
    IN /\ resolved.available <=> inRange
       /\ resolved.isFuture <=> (~inRange /\ below)
       /\ ~(resolved.available /\ resolved.isFuture)

\* A query below the range's minimum: not available, future.
C3_Witness ==
  /\ Answered
  /\ resolved.isFuture /\ ~resolved.available
  /\ TheSpec.availableIn.comps # <<>>

\* C4: if a deprecation entry has removedIn = R, the query at R answers
\* available = false and isFuture = false.
C4_RemovedIsUnavailable ==
  (Answered /\ \E i \in 1..Len(TheSpec.deprecations) :
                 TheSpec.deprecations[i].removedIn = Some(Asked.version))
    => (~resolved.available /\ ~resolved.isFuture)

\* ------------------------------------------------------------ import resolver

\* A Map in insertion order: a sequence of [key, value]; set() replaces the value
\* of a key it holds, in place, and appends a new key.
MapIndex(map, key) ==
  LET hits == {i \in 1..Len(map) : map[i].key = key}
  IN IF hits = {} THEN 0 ELSE CHOOSE i \in hits : TRUE
MapHas(map, key) == MapIndex(map, key) # 0
MapGet(map, key) == map[MapIndex(map, key)].value
MapSet(map, key, value) ==
  IF MapHas(map, key)
  THEN [map EXCEPT ![MapIndex(map, key)] = [key |-> key, value |-> value]]
  ELSE Append(map, [key |-> key, value |-> value])
MapValues(map) == [i \in 1..Len(map) |-> map[i].value]

\* Set.add in insertion order.
SetAdd(seq, x) ==
  IF \E i \in 1..Len(seq) : seq[i] = x THEN seq ELSE Append(seq, x)

\* String.indexOf of a one-character token: 0 when absent (the code's -1).
IndexOf(str, ch) ==
  LET hits == {i \in 1..Len(str) : str[i] = ch}
  IN IF hits = {} THEN 0 ELSE CHOOSE i \in hits : \A j \in hits : i <= j

\* String.split(ch).
RECURSIVE Split(_, _)
Split(str, ch) ==
  LET idx == IndexOf(str, ch)
  IN IF idx = 0 THEN <<str>>
     ELSE <<SubSeq(str, 1, idx - 1)>> \o Split(SubSeq(str, idx + 1, Len(str)), ch)

StartsWith(str, ch) == Len(str) > 0 /\ str[1] = ch

\* The subpath kept: an unscoped source taken whole.
extractPackageNameWhole(source) ==
  IF StartsWith(source, ".") \/ StartsWith(source, "/") THEN None
  ELSE IF StartsWith(source, "@")
       THEN LET parts == Split(source, "/")
            IN IF Len(parts) < 2 THEN None
               ELSE Some(parts[1] \o <<"/">> \o parts[2])
       ELSE Some(source)

extractPackageName(source) ==
  IF StartsWith(source, ".") \/ StartsWith(source, "/") THEN None
  ELSE IF StartsWith(source, "@")
       THEN LET parts == Split(source, "/")
            IN IF Len(parts) < 2 THEN None
               ELSE Some(parts[1] \o <<"/">> \o parts[2])
       ELSE LET slashIdx == IndexOf(source, "/")
            IN IF slashIdx = 0 THEN Some(source)
               ELSE Some(SubSeq(source, 1, slashIdx - 1))

Default == <<"default">>
Star == <<"*">>

\* `trackedPackages && !trackedPackages.has(pkg)`, with the filter never consulted.
IsUntrackedNever(trackedPackages, pkg) == FALSE

\* `trackedPackages && !trackedPackages.has(pkg)`
IsUntracked(trackedPackages, pkg) ==
  IsSome(trackedPackages) /\ pkg \notin Get(trackedPackages)

\* The alias stored as the export name.
NamedBindingOfLocal(spec, pkg, location) ==
  [package |-> pkg, exportName |-> spec.local,
   importKind |-> "named", importLocation |-> location]

\* The binding of a named specifier.
NamedBinding(spec, pkg, location) ==
  [package |-> pkg, exportName |-> spec.imported,
   importKind |-> "named", importLocation |-> location]

RECURSIVE BindSpecifiers(_, _, _, _, _)
BindSpecifiers(bindings, specifiers, i, pkg, location) ==
  IF i > Len(specifiers) THEN bindings
  ELSE IF specifiers[i].isTypeOnly
       THEN BindSpecifiers(bindings, specifiers, i + 1, pkg, location)
       ELSE BindSpecifiers(
              MapSet(bindings, specifiers[i].local,
                     NamedBinding(specifiers[i], pkg, location)),
              specifiers, i + 1, pkg, location)

\* Step 1, one import: st holds bindings, namespacesAndDefaults, importedPackages
\* and unresolvedImports.
BindImport(st, imp, trackedPackages) ==
  IF imp.isTypeOnly THEN st
  ELSE LET pkg == extractPackageName(imp.source)
       IN IF ~IsSome(pkg) \/ Get(pkg) = <<>> THEN st
          ELSE IF IsUntracked(trackedPackages, Get(pkg))
               THEN [st EXCEPT !.unresolvedImports = Append(@, imp.source)]
               ELSE LET named == BindSpecifiers(st.bindings, imp.specifiers, 1,
                                                Get(pkg), imp.location)
                        withDefault == imp.hasDefault /\ IsSome(imp.defaultLocal)
                        nsd1 == IF withDefault
                                THEN MapSet(st.namespacesAndDefaults,
                                            Get(imp.defaultLocal), Get(pkg))
                                ELSE st.namespacesAndDefaults
                        b1 == IF withDefault
                              THEN MapSet(named, Get(imp.defaultLocal),
                                     [package |-> Get(pkg), exportName |-> Default,
                                      importKind |-> "default",
                                      importLocation |-> imp.location])
                              ELSE named
                        withNamespace == imp.hasNamespace /\ IsSome(imp.namespaceLocal)
                        nsd2 == IF withNamespace
                                THEN MapSet(nsd1, Get(imp.namespaceLocal), Get(pkg))
                                ELSE nsd1
                        b2 == IF withNamespace
                              THEN MapSet(b1, Get(imp.namespaceLocal),
                                     [package |-> Get(pkg), exportName |-> Star,
                                      importKind |-> "namespace",
                                      importLocation |-> imp.location])
                              ELSE b1
                    IN [st EXCEPT !.importedPackages = SetAdd(@, Get(pkg)),
                                  !.bindings = b2,
                                  !.namespacesAndDefaults = nsd2]

RECURSIVE BindImports(_, _, _, _)
BindImports(st, imports, i, trackedPackages) ==
  IF i > Len(imports) THEN st
  ELSE BindImports(BindImport(st, imports[i], trackedPackages), imports, i + 1,
                   trackedPackages)

NoBindings ==
  [bindings |-> <<>>, namespacesAndDefaults |-> <<>>,
   importedPackages |-> <<>>, unresolvedImports |-> <<>>]

\* `binding?.importKind === "namespace" ? "namespace" : "default"`, with every
\* member call reported as a default import.
MemberImportKindDefault(bindings, obj) == "default"

\* `binding?.importKind === "namespace" ? "namespace" : "default"`
MemberImportKind(bindings, obj) ==
  IF MapHas(bindings, obj) /\ MapGet(bindings, obj).importKind = "namespace"
  THEN "namespace" ELSE "default"

resolveCallee(callee, bindings, namespacesAndDefaults) ==
  IF /\ MapHas(bindings, callee)
     /\ MapGet(bindings, callee).exportName # Default
     /\ MapGet(bindings, callee).exportName # Star
  THEN Some([package |-> MapGet(bindings, callee).package,
             exportName |-> MapGet(bindings, callee).exportName,
             importKind |-> MapGet(bindings, callee).importKind])
  ELSE LET dotIdx == IndexOf(callee, ".")
       IN IF dotIdx = 0 THEN None
          ELSE LET obj == SubSeq(callee, 1, dotIdx - 1)
                   prop == SubSeq(callee, dotIdx + 1, Len(callee))
               IN IF /\ MapHas(namespacesAndDefaults, obj)
                     /\ MapGet(namespacesAndDefaults, obj) # <<>>
                  THEN Some([package |-> MapGet(namespacesAndDefaults, obj),
                             exportName |-> prop,
                             importKind |-> MemberImportKind(bindings, obj)])
                  ELSE None

\* `usageMap.get(key)`, never finding the record.
UsageLookupMiss(usageMap, key) == None

\* `usageMap.get(key)`
UsageLookup(usageMap, key) ==
  IF MapHas(usageMap, key) THEN Some(MapGet(usageMap, key)) ELSE None

\* Array.unshift: the site put in front.
unshift(usageSites, site) == <<site>> \o usageSites

\* usage.usageSites.push(site)
push(usageSites, site) == Append(usageSites, site)

\* Step 2, one call expression.
RecordCall(usageMap, call, st) ==
  LET found == resolveCallee(call.callee, st.bindings, st.namespacesAndDefaults)
  IN IF ~IsSome(found) THEN usageMap
     ELSE LET key == Key(Get(found).package, Get(found).exportName)
              got == UsageLookup(usageMap, key)
              usage == IF IsSome(got) THEN Get(got)
                       ELSE [package |-> Get(found).package,
                             export |-> Get(found).exportName,
                             importKind |-> Get(found).importKind,
                             usageSites |-> <<>>]
              site == [location |-> call.location,
                       argCount |-> Some(call.argCount),
                       argNames |-> IF Len(call.argNames) > 0
                                    THEN Some(call.argNames) ELSE None]
          IN MapSet(usageMap, key, [usage EXCEPT !.usageSites = push(@, site)])

RECURSIVE RecordCalls(_, _, _, _)
RecordCalls(usageMap, calls, i, st) ==
  IF i > Len(calls) THEN usageMap
  ELSE RecordCalls(RecordCall(usageMap, calls[i], st), calls, i + 1, st)

\* Step 3's test, with the import-only usages forgotten.
NeedsImportOnlyNever(usageMap, binding) == FALSE

\* Step 3's test: the binding is no default or namespace binding and its key has
\* no usage yet.
NeedsImportOnly(usageMap, binding) ==
  /\ binding.exportName # Default
  /\ binding.exportName # Star
  /\ ~MapHas(usageMap, Key(binding.package, binding.exportName))

RECURSIVE AddImportOnly(_, _, _)
AddImportOnly(usageMap, bindings, i) ==
  IF i > Len(bindings) THEN usageMap
  ELSE LET binding == bindings[i].value
       IN IF NeedsImportOnly(usageMap, binding)
          THEN AddImportOnly(
                 MapSet(usageMap, Key(binding.package, binding.exportName),
                        [package |-> binding.package,
                         export |-> binding.exportName,
                         importKind |-> binding.importKind,
                         usageSites |-> <<[location |-> binding.importLocation,
                                           argCount |-> None,
                                           argNames |-> None]>>]),
                 bindings, i + 1)
          ELSE AddImportOnly(usageMap, bindings, i + 1)

resolveImports(tree, trackedPackages) ==
  LET st == BindImports(NoBindings, tree.imports, 1, trackedPackages)
      called == RecordCalls(<<>>, tree.callExpressions, 1, st)
      usageMap == AddImportOnly(called, st.bindings, 1)
  IN [done |-> TRUE,
      usages |-> MapValues(usageMap),
      importedPackages |-> st.importedPackages,
      unresolvedImports |-> st.unresolvedImports]

\* ------------------------------------------------ import resolver: the inputs

A == <<"A">>
R == <<"R">>
ReactSource == <<"react">>
ScopedSource == <<"@", "s", "/", "n", "/", "sub">>
ScopedPackage == <<"@", "s", "/", "n">>
RelativeSource == <<".", "/", "utils">>
File == <<"src", "/", "App", ".", "tsx">>

At(line) == [file |-> File, line |-> line, column |-> 0]

Specifier(imported, local, isTypeOnly) ==
  [imported |-> imported, local |-> local, isTypeOnly |-> isTypeOnly]

Clause(specifiers, defaultLocal, namespaceLocal, isTypeOnly) ==
  [specifiers |-> specifiers,
   hasDefault |-> IsSome(defaultLocal), defaultLocal |-> defaultLocal,
   hasNamespace |-> IsSome(namespaceLocal), namespaceLocal |-> namespaceLocal,
   isTypeOnly |-> isTypeOnly]

\* import { A }, { A as R }, { default as A }, { type A }, type { A },
\* R (default), * as R
NamedA == Clause(<<Specifier(A, A, FALSE)>>, None, None, FALSE)
DefaultR == Clause(<<>>, Some(R), None, FALSE)
ReactClauses ==
  {NamedA,
   Clause(<<Specifier(A, R, FALSE)>>, None, None, FALSE),
   Clause(<<Specifier(Default, A, FALSE)>>, None, None, FALSE),
   Clause(<<Specifier(A, A, TRUE)>>, None, None, FALSE),
   Clause(<<Specifier(A, A, FALSE)>>, None, None, TRUE),
   DefaultR,
   Clause(<<>>, None, Some(R), FALSE)}

ImportShapes ==
  {[source |-> ReactSource, clause |-> c] : c \in ReactClauses}
    \cup {[source |-> ScopedSource, clause |-> c] : c \in {NamedA, DefaultR}}
    \cup {[source |-> RelativeSource, clause |-> NamedA]}

\* A(), A({x}), R(), R.A(e), R.A.A()
CallShapes ==
  {[callee |-> A, argCount |-> 0, argNames |-> <<>>],
   [callee |-> A, argCount |-> 1, argNames |-> <<"x">>],
   [callee |-> R, argCount |-> 0, argNames |-> <<>>],
   [callee |-> R \o <<".">> \o A, argCount |-> 1, argNames |-> <<>>],
   [callee |-> R \o <<".">> \o A \o <<".">> \o A, argCount |-> 0, argNames |-> <<>>]}

\* Imports sit on lines 1.., call expressions on the lines after MaxImports.
ImportAt(shape, i) ==
  [source |-> shape.source,
   specifiers |-> shape.clause.specifiers,
   hasDefault |-> shape.clause.hasDefault,
   defaultLocal |-> shape.clause.defaultLocal,
   hasNamespace |-> shape.clause.hasNamespace,
   namespaceLocal |-> shape.clause.namespaceLocal,
   isTypeOnly |-> shape.clause.isTypeOnly,
   isRequire |-> FALSE,
   location |-> At(i)]

CallAt(shape, j) ==
  [callee |-> shape.callee, argCount |-> shape.argCount,
   argNames |-> shape.argNames, location |-> At(MaxImports + j)]

AstOf(importShapes, callShapes) ==
  [imports |-> [i \in 1..Len(importShapes) |-> ImportAt(importShapes[i], i)],
   callExpressions |-> [j \in 1..Len(callShapes) |-> CallAt(callShapes[j], j)],
   jsxElements |-> <<>>]

IdleStore ==
  /\ store = createAuthorityStoreFromSpecs(<<>>, TestVersion)
  /\ InitQuery

InitResolver ==
  /\ \E is \in SeqsUpTo(ImportShapes, MaxImports), cs \in SeqsUpTo(CallShapes, MaxCalls) :
       ast = AstOf(is, cs)
  /\ tracked \in {None, Some({ReactSource})}
  /\ resolution = NoResolution
  /\ IdleStore /\ IdleAnalyzer /\ IdleIds /\ IdleRest

\* resolveImports(ast, trackedPackages)
ResolveImports ==
  /\ resolution' = resolveImports(ast, tracked)
  /\ UNCHANGED <<names, lockfile, cache, tsfiles, store, query, resolved, ast, tracked, analysis, ids, inline, loading, hashed, contexts, depmap>>

NextResolver == ResolveImports

SpecResolver == InitResolver /\ [][NextResolver]_vars

\* -------------------------------------------------- claims: the import resolver

\* What the import statements of the tree bind, read off the tree in source
\* order: per import that is not type-only and whose package is resolved and
\* tracked, its named specifiers, then its default, then its namespace.
Counted(imp) ==
  /\ ~imp.isTypeOnly
  /\ IsSome(extractPackageName(imp.source))
  /\ (IsSome(tracked) => Get(extractPackageName(imp.source)) \in Get(tracked))

Introduces(local, exportName, kind, imp) ==
  [local |-> local, package |-> Get(extractPackageName(imp.source)),
   exportName |-> exportName, importKind |-> kind, location |-> imp.location]

IntroducedBy(imp) ==
  LET named == SelectSeq(imp.specifiers, LAMBDA sp : ~sp.isTypeOnly)
  IN [k \in 1..Len(named) |-> Introduces(named[k].local, named[k].imported, "named", imp)]
     \o (IF imp.hasDefault
         THEN <<Introduces(Get(imp.defaultLocal), Default, "default", imp)>> ELSE <<>>)
     \o (IF imp.hasNamespace
         THEN <<Introduces(Get(imp.namespaceLocal), Star, "namespace", imp)>> ELSE <<>>)

RECURSIVE IntroducedUpTo(_)
IntroducedUpTo(n) ==
  IF n = 0 THEN <<>>
  ELSE IntroducedUpTo(n - 1)
         \o (IF Counted(ast.imports[n]) THEN IntroducedBy(ast.imports[n]) ELSE <<>>)

Introduced == IntroducedUpTo(Len(ast.imports))

\* The introduction a local name ends up bound by: the last one of that name.
Holds(intro, k) == \A m \in 1..Len(intro) : intro[m].local = intro[k].local => m <= k
\* The default and namespace introductions of a name.
Receivers(intro, head) ==
  {k \in 1..Len(intro) :
     intro[k].local = head /\ intro[k].importKind \in {"default", "namespace"}}
LastOf(S) == CHOOSE k \in S : \A m \in S : m <= k

Dotted(call) == IndexOf(call.callee, ".") # 0
CalleeHead(call) == SubSeq(call.callee, 1, IndexOf(call.callee, ".") - 1)
CalleeTail(call) == SubSeq(call.callee, IndexOf(call.callee, ".") + 1, Len(call.callee))

Pair(p, e) == [package |-> p, export |-> e]
NoPair == [package |-> <<>>, export |-> <<>>]

\* The symbol a call expression refers to, if any.
Target(intro, call) ==
  LET direct == {k \in 1..Len(intro) :
                   /\ intro[k].local = call.callee
                   /\ Holds(intro, k)
                   /\ intro[k].exportName \notin {Default, Star}}
  IN IF direct # {}
     THEN Pair(intro[LastOf(direct)].package, intro[LastOf(direct)].exportName)
     ELSE IF Dotted(call) /\ Receivers(intro, CalleeHead(call)) # {}
          THEN Pair(intro[LastOf(Receivers(intro, CalleeHead(call)))].package, CalleeTail(call))
          ELSE NoPair

Usages == resolution.usages
PairOf(u) == Pair(u.package, u.export)
UsagesOf(pair) == {i \in 1..Len(Usages) : PairOf(Usages[i]) = pair}
HasSiteAt(u, location) ==
  \E n \in 1..Len(u.usageSites) : u.usageSites[n].location = location
CallsTo(intro, pair) == SelectSeq(ast.callExpressions, LAMBDA c : Target(intro, c) = pair)

DistinctLocals(intro) ==
  \A k, m \in 1..Len(intro) : intro[k].local = intro[m].local => k = m

\* C7 as stated, on the trees whose imports bind every local name once: a dotted
\* call whose head is the local name of a default or namespace import of a
\* tracked package P has a site under (P, tail), in a usage whose importKind is
\* the kind of the import that introduced the head; any other dotted call has
\* no site.
C7_MemberCallKind ==
  LET intro == Introduced IN
  (resolution.done /\ DistinctLocals(intro)) =>
    \A n \in 1..Len(ast.callExpressions) :
      LET call == ast.callExpressions[n]
      IN Dotted(call) =>
           IF Receivers(intro, CalleeHead(call)) # {}
           THEN \E k \in Receivers(intro, CalleeHead(call)) :
                  \E i \in UsagesOf(Pair(intro[k].package, CalleeTail(call))) :
                    /\ HasSiteAt(Usages[i], call.location)
                    /\ Usages[i].importKind = intro[k].importKind
           ELSE \A i \in 1..Len(Usages) : ~HasSiteAt(Usages[i], call.location)

\* C7 as amended: the site is recorded under (P, tail), P being the package of
\* the last default or namespace import of the head; the usage's importKind is
\* fixed by its first site: when that is this call, it is "namespace" if the
\* binding the head's name ends up with is a namespace binding and "default"
\* otherwise; a usage that exists already keeps its importKind.
C7_MemberCallSite ==
  LET intro == Introduced IN
  resolution.done =>
    \A n \in 1..Len(ast.callExpressions) :
      LET call == ast.callExpressions[n]
      IN Dotted(call) =>
           IF Receivers(intro, CalleeHead(call)) # {}
           THEN LET k == LastOf(Receivers(intro, CalleeHead(call)))
                    held == CHOOSE m \in 1..Len(intro) :
                              intro[m].local = CalleeHead(call) /\ Holds(intro, m)
                IN \E i \in UsagesOf(Pair(intro[k].package, CalleeTail(call))) :
                     /\ HasSiteAt(Usages[i], call.location)
                     /\ Usages[i].usageSites[1].location = call.location =>
                          Usages[i].importKind =
                            (IF intro[held].importKind = "namespace"
                             THEN "namespace" ELSE "default")
           ELSE \A i \in 1..Len(Usages) : ~HasSiteAt(Usages[i], call.location)

\* A member call through a namespace import that opens its usage.
C7_Witness ==
  /\ resolution.done
  /\ \E n \in 1..Len(ast.callExpressions), i \in 1..Len(Usages) :
       /\ Dotted(ast.callExpressions[n])
       /\ Usages[i].usageSites[1].location = ast.callExpressions[n].location
       /\ Usages[i].importKind = "namespace"

\* The named introductions of a pair.
NamedOf(intro, pair) ==
  {k \in 1..Len(intro) :
     /\ intro[k].importKind = "named"
     /\ Pair(intro[k].package, intro[k].exportName) = pair}

ImportOnly(intro, pair, from) ==
  /\ Cardinality(UsagesOf(pair)) = 1
  /\ \A i \in UsagesOf(pair) :
       /\ Len(Usages[i].usageSites) = 1
       /\ Usages[i].usageSites[1].argCount = None
       /\ \E k \in from : Usages[i].usageSites[1].location = intro[k].location

C9_UntrackedImports ==
  (resolution.done /\ IsSome(tracked)) =>
    \A n \in 1..Len(ast.imports) :
      LET imp == ast.imports[n]
          pkg == extractPackageName(imp.source)
      IN (~imp.isTypeOnly /\ IsSome(pkg) /\ Get(pkg) \notin Get(tracked)) =>
           /\ Cardinality({m \in 1..Len(resolution.unresolvedImports) :
                             resolution.unresolvedImports[m] = imp.source})
                = Cardinality({m \in 1..Len(ast.imports) :
                                 /\ ast.imports[m].source = imp.source
                                 /\ ~ast.imports[m].isTypeOnly})
           /\ \A i \in 1..Len(Usages) : Usages[i].package # Get(pkg)
           /\ \A m \in 1..Len(resolution.importedPackages) :
                resolution.importedPackages[m] # Get(pkg)

\* A filtered run over a tree that imports A from an untracked package and
\* calls it.
C9_Witness ==
  /\ resolution.done /\ IsSome(tracked)
  /\ resolution.unresolvedImports # <<>>
  /\ \E n \in 1..Len(ast.imports), m \in 1..Len(ast.callExpressions) :
       /\ ast.imports[n].source = ScopedSource
       /\ Len(ast.imports[n].specifiers) = 1
       /\ ast.imports[n].specifiers[1].local = ast.callExpressions[m].callee

\* ------------------------------------------------------------------ long ids

Digit == <<"0", "1", "2", "3", "4", "5", "6", "7", "8", "9">>
IsDigit(ch) == \E d \in 1..10 : Digit[d] = ch
DigitValue(ch) == (CHOOSE d \in 1..10 : Digit[d] = ch) - 1

\* `${n}` of a non-negative integer.
RECURSIVE NumberToString(_)
NumberToString(n) ==
  IF n < 10 THEN <<Digit[n + 1]>>
  ELSE NumberToString(n \div 10) \o <<Digit[(n % 10) + 1]>>

\* parseInt(digits, 10) of a string of digits.
RECURSIVE ParseInt(_)
ParseInt(digits) ==
  IF Len(digits) = 0 THEN 0
  ELSE 10 * ParseInt(SubSeq(digits, 1, Len(digits) - 1)) + DigitValue(digits[Len(digits)])

LastIndexOf(str, ch) ==
  LET hits == {i \in 1..Len(str) : str[i] = ch}
  IN IF hits = {} THEN 0 ELSE CHOOSE i \in hits : \A j \in hits : j <= i

AllDigits(str) == Len(str) > 0 /\ \A i \in 1..Len(str) : IsDigit(str[i])

Prefix == <<"dxy", ":">>

makeLongId(pkg, exportName, file, line, col) ==
  Prefix \o pkg \o <<"/">> \o exportName \o <<":">> \o file
    \o <<":">> \o NumberToString(line) \o <<":">> \o NumberToString(col)

\* The match of /^dxy:([^\/]+)\/([^:]+):(.+):(\d+):(\d+)$/ : the package runs to
\* the first "/", the export from there to the next ":", line and column are the
\* digits after the last two ":", the file is what lies between.
parseLongId(longId) ==
  IF Len(longId) < Len(Prefix) \/ SubSeq(longId, 1, Len(Prefix)) # Prefix THEN None
  ELSE
    LET rest == SubSeq(longId, Len(Prefix) + 1, Len(longId))
        slash == IndexOf(rest, "/")
        afterSlash == SubSeq(rest, slash + 1, Len(rest))
        colon == IndexOf(afterSlash, ":")
        tail == SubSeq(afterSlash, colon + 1, Len(afterSlash))
        colColon == LastIndexOf(tail, ":")
        col == SubSeq(tail, colColon + 1, Len(tail))
        beforeCol == SubSeq(tail, 1, colColon - 1)
        lineColon == LastIndexOf(beforeCol, ":")
        line == SubSeq(beforeCol, lineColon + 1, Len(beforeCol))
        file == SubSeq(beforeCol, 1, lineColon - 1)
    IN IF /\ slash >= 2
          /\ colon >= 2
          /\ colColon >= 1 /\ AllDigits(col)
          /\ lineColon >= 2 /\ AllDigits(line)
       THEN Some([package |-> SubSeq(rest, 1, slash - 1),
                  export |-> SubSeq(afterSlash, 1, colon - 1),
                  file |-> file,
                  line |-> ParseInt(line),
                  column |-> ParseInt(col)])
       ELSE None

IdPackages == {ReactSource, ScopedPackage}
IdExports == {<<"useState">>, A \o <<".">> \o A}
IdFiles == {File, <<"App", ".", "tsx">>}

\* makeLongId(pkg, exportName, file, line, col)
MakeLongId ==
  \E pkg \in IdPackages, exportName \in IdExports, file \in IdFiles,
     line \in 0..MaxLine, col \in 0..MaxLine :
    /\ ids' = [input |-> Some([package |-> pkg, export |-> exportName, file |-> file,
                               line |-> line, column |-> col]),
               text |-> makeLongId(pkg, exportName, file, line, col),
               parsed |-> None, asked |-> FALSE]
    /\ UNCHANGED <<names, lockfile, cache, tsfiles, store, query, resolved, ast, tracked, resolution, analysis, inline, loading, hashed, contexts, depmap>>

\* parseLongId(longId), on the long id made last
ParseLongId ==
  /\ IsSome(ids.input)
  /\ ids' = [ids EXCEPT !.parsed = parseLongId(ids.text), !.asked = TRUE]
  /\ UNCHANGED <<names, lockfile, cache, tsfiles, store, query, resolved, ast, tracked, resolution, analysis, inline, loading, hashed, contexts, depmap>>

NextIds == MakeLongId \/ ParseLongId

InitIds == IdleIds /\ IdleStore /\ IdleResolver /\ IdleAnalyzer /\ IdleRest

SpecIds == InitIds /\ [][NextIds]_vars

\* C10: parseLongId(makeLongId(package, export, file, line, column)) is exactly
\* that tuple, scoped package names such as @scope/name included.
C10_LongIdRoundTrip == ids.asked => ids.parsed = ids.input

\* ------------------------------------------------------------------ analyzer
\* The classification follows section 4.3 of the design document; the store it
\* queries and the severity table are the code's.

SEVERITY_MAP(kind) ==
  CASE kind = "removed-api" -> "error"
    [] kind = "future-api" -> "error"
    [] kind = "wrong-arity" -> "error"
    [] kind = "wrong-param" -> "error"
    [] kind = "deprecated-api" -> "warning"
    [] kind = "unknown-export" -> "info"

MakeFinding(kind, usage, site) ==
  [kind |-> kind,
   severity |-> SEVERITY_MAP(kind),
   location |-> site.location,
   longId |-> makeLongId(usage.package, usage.export, site.location.file,
                         site.location.line, site.location.column)]

\* Rules 1-4 of the classification, in order; None when none of them matches.
ClassifyUsage(res) ==
  CASE res.tag = "undefined" -> Some("unknown-export")
    [] res.tag = "resolved" /\ ~res.available /\ res.isFuture -> Some("future-api")
    [] res.tag = "resolved" /\ ~res.available /\ ~res.isFuture -> Some("removed-api")
    [] res.tag = "resolved" /\ IsSome(res.activeDeprecation) -> Some("deprecated-api")
    [] OTHER -> None

ParamNames(sig) == {sig.params[i].name : i \in 1..Len(sig.params)}

\* Rule 5, for one site; None when the site passes (rule 6).
ClassifySite(res, site) ==
  IF res.tag = "resolved" /\ IsSome(res.activeSignature) /\ IsSome(site.argCount)
  THEN LET sig == Get(res.activeSignature)
           argCount == Get(site.argCount)
       IN IF argCount < sig.minArity \/ argCount > sig.maxArity
          THEN Some("wrong-arity")
          ELSE IF /\ IsSome(site.argNames)
                  /\ \E i \in 1..Len(Get(site.argNames)) :
                       Get(site.argNames)[i] \notin ParamNames(sig)
               THEN Some("wrong-param")
               ELSE None
  ELSE None

RECURSIVE SiteFindings(_, _, _)
SiteFindings(res, usage, i) ==
  IF i > Len(usage.usageSites) THEN <<>>
  ELSE LET site == usage.usageSites[i]
           kind == ClassifySite(res, site)
       IN (IF IsSome(kind) THEN <<MakeFinding(Get(kind), usage, site)>> ELSE <<>>)
            \o SiteFindings(res, usage, i + 1)

\* The findings of one usage at the installed version of its package.
analyzeUsage(st, usage, installedVersion) ==
  LET res == getApiSpec(st, usage.package, usage.export, installedVersion)
      kind == ClassifyUsage(res)
  IN IF res.tag = "threw" THEN <<>>
     ELSE IF IsSome(kind)
          THEN <<MakeFinding(Get(kind), usage, usage.usageSites[1])>>
          ELSE SiteFindings(res, usage, 1)

\* Usage sites: an import-only site, f(), f({x}), f({y}).
SiteShapes ==
  {[argCount |-> None, argNames |-> None],
   [argCount |-> Some(0), argNames |-> None],
   [argCount |-> Some(1), argNames |-> Some(<<"x">>)],
   [argCount |-> Some(1), argNames |-> Some(<<"y">>)]}

SiteAt(shape, i) ==
  [location |-> At(i), argCount |-> shape.argCount, argNames |-> shape.argNames]

UsageOf(exportName, shapes) ==
  [package |-> React, export |-> exportName, importKind |-> "named",
   usageSites |-> [i \in 1..Len(shapes) |-> SiteAt(shapes[i], i)]]

UsageInputs ==
  {UsageOf(exportName, shapes) :
     exportName \in {Fn, Other},
     shapes \in SeqsUpTo(SiteShapes, MaxSites) \ {<<>>}}

AnalyzerSignatures ==
  {<<>>,
   <<[since |-> <<0>>, until |-> None, minArity |-> 1, maxArity |-> 1,
      params |-> <<[name |-> "x", required |-> TRUE]>>]>>,
   <<[since |-> <<1>>, until |-> Some(<<MaxMajor>>), minArity |-> 1, maxArity |-> 1,
      params |-> <<[name |-> "x", required |-> TRUE]>>]>>}

AnalyzerDeprecations ==
  {<<>>,
   <<[since |-> <<0>>, removedIn |-> None, message |-> "deprecated",
      replacement |-> None]>>,
   <<[since |-> <<1>>, removedIn |-> Some(<<MaxMajor>>), message |-> "deprecated",
      replacement |-> None]>>}

AnalyzerRanges == AvailabilityVariants \cup {[valid |-> TRUE, comps |-> <<>>]}

\* analyzing one usage of the file against the store
AnalyzeUsage ==
  /\ IsSome(analysis.usage)
  /\ analysis' = [analysis EXCEPT
                    !.done = TRUE,
                    !.findings = analyzeUsage(store, Get(analysis.usage), analysis.version)]
  /\ UNCHANGED <<names, lockfile, cache, tsfiles, store, query, resolved, ast, tracked, resolution, ids, inline, loading, hashed, contexts, depmap>>

NextAnalyzer == AnalyzeUsage

InitAnalyzer ==
  /\ \E range \in AnalyzerRanges, sigs \in AnalyzerSignatures,
        deps \in AnalyzerDeprecations :
       store = StoreOf(range, sigs, deps)
  /\ \E usage \in UsageInputs, version \in VersionStrings :
       analysis = [done |-> FALSE, usage |-> Some(usage), version |-> version,
                   findings |-> <<>>]
  /\ InitQuery
  /\ IdleResolver /\ IdleIds /\ IdleRest

SpecAnalyzer == InitAnalyzer /\ [][NextAnalyzer]_vars

Analyzed == Get(analysis.usage)
AnalyzedVersion == SemverCoerce(analysis.version)
Known == Key(Analyzed.package, Analyzed.export) \in DOMAIN store.specs
AnalyzedSpec == store.specs[Key(Analyzed.package, Analyzed.export)]
InRange ==
  AnalyzedVersion # <<>> /\ AnalyzedVersion \in RangeVersions(AnalyzedSpec.availableIn)
Announced ==
  AnalyzedVersion # <<>> /\ \E i \in 1..Len(AnalyzedSpec.deprecations) :
    AnnouncedBy(AnalyzedSpec.deprecations[i], AnalyzedVersion)
UsageKinds == {"unknown-export", "future-api", "removed-api", "deprecated-api"}
SiteKinds == {"wrong-arity", "wrong-param"}
FindingsOf(kinds) ==
  {i \in 1..Len(analysis.findings) : analysis.findings[i].kind \in kinds}
Below ==
  /\ AnalyzedVersion # <<>>
  /\ BelowAll(AnalyzedVersion, RangeVersions(AnalyzedSpec.availableIn))
FirstMatch ==
  CASE ~Known -> "unknown-export"
    [] Known /\ ~InRange /\ Below -> "future-api"
    [] Known /\ ~InRange /\ ~Below -> "removed-api"
    [] Known /\ InRange /\ Announced -> "deprecated-api"
    [] OTHER -> "none"

\* C5: classification is first-match in the order unknown-export, future-api,
\* removed-api, deprecated-api, then wrong-arity / wrong-param: a usage gets at
\* most one finding of the first four kinds, the first that matches, at its
\* first site; wrong-arity / wrong-param appear, at most once per site, only
\* when none of the first four matched; a symbol that is not available at the
\* installed version is never reported as deprecated-api.
C5_FirstMatchClassification ==
  analysis.done =>
    /\ Cardinality(FindingsOf(UsageKinds)) <= 1
    /\ \A i \in FindingsOf(UsageKinds) :
         /\ analysis.findings[i].kind = FirstMatch
         /\ analysis.findings[i].location = Analyzed.usageSites[1].location
    /\ FirstMatch # "none" => /\ Cardinality(FindingsOf(UsageKinds)) = 1
                              /\ FindingsOf(SiteKinds) = {}
    /\ \A i, j \in FindingsOf(SiteKinds) :
         analysis.findings[i].location = analysis.findings[j].location => i = j
    /\ \A i \in FindingsOf(SiteKinds) :
         \E k \in 1..Len(Analyzed.usageSites) :
           /\ Analyzed.usageSites[k].location = analysis.findings[i].location
           /\ IsSome(Analyzed.usageSites[k].argCount)
    /\ (Known /\ ~InRange) =>
         \A i \in 1..Len(analysis.findings) :
           analysis.findings[i].kind # "deprecated-api"

\* An unavailable symbol with an active deprecation, used at two sites: one
\* finding, not deprecated-api.
C5_Witness ==
  /\ analysis.done
  /\ Known /\ ~InRange /\ Announced
  /\ IsSome(getApiSpec(store, Analyzed.package, Analyzed.export,
                       analysis.version).activeDeprecation)
  /\ Len(Analyzed.usageSites) > 1
  /\ Len(analysis.findings) = 1
  /\ analysis.findings[1].kind = "removed-api"

\* ------------------------------------------------------- inline suppressions
\* A source text is a sequence of tokens.  "\n" separates lines; " " and "\r"
\* are the whitespace; "/", "*" and ":" are characters of their own; every other
\* token is a run of characters of the class [\w*-] (a directive word, a kind,
\* "--", a word of code or of a reason).  ":" stands for the em dash as well: the
\* patterns treat the two alike.

VALID_KINDS ==
  {<<"deprecated-api">>, <<"removed-api">>, <<"future-api">>, <<"wrong-arity">>,
   <<"wrong-param">>, <<"unknown-export">>, <<"*">>}

\* \s
IsSpace(t) == t \in {" ", "\r"}
\* what `.` does not match
IsLineTerminator(t) == t = "\r"
\* --|—|:
IsSeparator(t) == t \in {"--", ":"}
\* [\w*-]
IsKindChar(t) == ~IsSpace(t) /\ t \notin {"/", ":", "\n"}

\* The first index from i on that holds no whitespace; Len + 1 when there is none.
SkipSpaces(line, i) ==
  LET rest == {k \in i..Len(line) : ~IsSpace(line[k])}
  IN IF rest = {} THEN Len(line) + 1 ELSE CHOOSE k \in rest : \A m \in rest : k <= m

\* The last index of the run of [\w*-] that starts at j; j - 1 when there is none.
RunEnd(line, j) ==
  LET stops == {k \in j..Len(line) : ~IsKindChar(line[k])}
  IN IF stops = {} THEN Len(line)
     ELSE (CHOOSE k \in stops : \A m \in stops : k <= m) - 1

Unmatched == [matched |-> FALSE, reason |-> None]

\* (?:\s*(?:--|—|:)\s*(.+?))?$ after a kind that ends at k.
ReasonToEnd(line, k) ==
  LET p == SkipSpaces(line, k + 1)
      q == SkipSpaces(line, p + 1)
      from == IF q <= Len(line) THEN q ELSE Len(line)
      clean == \A m \in from..Len(line) : ~IsLineTerminator(line[m])
  IN IF p < Len(line) /\ IsSeparator(line[p]) /\ clean
     THEN [matched |-> TRUE, reason |-> Some(SubSeq(line, from, Len(line)))]
     ELSE IF k = Len(line) THEN [matched |-> TRUE, reason |-> None]
     ELSE Unmatched

\* The match of word\s+([\w*-]+)(?:...)?$ that starts at i, if there is one: the
\* longest kind that lets the rest of the pattern match.
MatchLineAt(line, word, i) ==
  LET j == SkipSpaces(line, i + 1)
      r == RunEnd(line, j)
      ends == {k \in j..r : ReasonToEnd(line, k).matched}
      k == CHOOSE e \in ends : \A m \in ends : m <= e
  IN IF line[i] = word /\ j > i + 1 /\ ends # {}
     THEN Some([kind |-> SubSeq(line, j, k), reason |-> ReasonToEnd(line, k).reason])
     ELSE None

\* line.match(pattern) for IGNORE_NEXT_LINE and IGNORE_CURRENT_LINE: the leftmost
\* match.
MatchLine(line, word) ==
  LET starts == {i \in 1..Len(line) : IsSome(MatchLineAt(line, word, i))}
  IN IF starts = {} THEN None
     ELSE MatchLineAt(line, word, CHOOSE i \in starts : \A m \in starts : i <= m)

IGNORE_NEXT_LINE(line) == MatchLine(line, "doxy-ignore")
IGNORE_CURRENT_LINE(line) == MatchLine(line, "doxy-ignore-line")
IGNORE_BLOCK_END(line) == \E i \in 1..Len(line) : line[i] = "doxy-ignore-end"

\* String.trim
RECURSIVE Trim(_)
Trim(str) ==
  IF Len(str) > 0 /\ IsSpace(str[1]) THEN Trim(SubSeq(str, 2, Len(str)))
  ELSE IF Len(str) > 0 /\ IsSpace(str[Len(str)]) THEN Trim(SubSeq(str, 1, Len(str) - 1))
  ELSE str

\* lineMatch[2]?.trim()
TrimReason(reason) == IF IsSome(reason) THEN Some(Trim(Get(reason))) ELSE None

\* The match of doxy-ignore-start\s+([\w*-]+)(?:\s*(?:--|—|:)\s*(.+))? that
\* starts at i, if there is one: the whole run is the kind, the reason runs to the
\* end of the line (to the first line terminator), `to` is where the match ends.
MatchBlockStartAt(line, i) ==
  LET j == SkipSpaces(line, i + 1)
      r == RunEnd(line, j)
      p == SkipSpaces(line, r + 1)
      q == SkipSpaces(line, p + 1)
      back == {m \in (p + 1)..Len(line) : ~IsLineTerminator(line[m])}
      from == IF q <= Len(line) THEN q
              ELSE IF back = {} THEN 0
              ELSE CHOOSE m \in back : \A n \in back : n <= m
      stops == {m \in from..Len(line) : IsLineTerminator(line[m])}
      to == IF stops = {} THEN Len(line)
            ELSE (CHOOSE m \in stops : \A n \in stops : m <= n) - 1
  IN IF line[i] = "doxy-ignore-start" /\ j > i + 1 /\ r >= j
     THEN IF p < Len(line) /\ IsSeparator(line[p]) /\ from > 0
          THEN Some([kind |-> SubSeq(line, j, r), reason |-> Some(SubSeq(line, from, to)),
                     from |-> i, to |-> to])
          ELSE Some([kind |-> SubSeq(line, j, r), reason |-> None, from |-> i, to |-> r])
     ELSE None

\* line.match(IGNORE_BLOCK_START): the leftmost match.
IGNORE_BLOCK_START(line) ==
  LET starts == {i \in 1..Len(line) : IsSome(MatchBlockStartAt(line, i))}
  IN IF starts = {} THEN None
     ELSE MatchBlockStartAt(line, CHOOSE i \in starts : \A m \in starts : i <= m)

\* line.replace(IGNORE_BLOCK_START, "")
WithoutBlockStart(line) ==
  LET m == IGNORE_BLOCK_START(line)
  IN IF IsSome(m)
     THEN SubSeq(line, 1, Get(m).from - 1) \o SubSeq(line, Get(m).to + 1, Len(line))
     ELSE line

\* raw.replace(/\s*\*\/\s*$/, "").trim() || undefined
cleanBlockReason(raw) ==
  IF ~IsSome(raw) \/ Get(raw) = <<>> THEN None
  ELSE LET t == Trim(Get(raw))
           n == Len(t)
           cleaned == IF n >= 2 /\ t[n - 1] = "*" /\ t[n] = "/"
                      THEN Trim(SubSeq(t, 1, n - 2)) ELSE t
       IN IF cleaned = <<>> THEN None ELSE Some(cleaned)

Suppression(kind, reason, startLine, endLine) ==
  [kind |-> kind, reason |-> reason, startLine |-> startLine, endLine |-> endLine]

\* VALID_KINDS.has(kind)
IsValidKind(kind) == kind \in VALID_KINDS

\* lineNum + 1
NextLineTarget(lineNum) == lineNum + 1

\* The start of a block, taken one line late.
BlockStartLineAfter(lineNum) == lineNum + 1

\* startLine: lineNum
BlockStartLine(lineNum) == lineNum

\* Array.shift: the first element taken off the array.
shift(openBlocks) == [last |-> openBlocks[1], rest |-> Tail(openBlocks)]

\* openBlocks.pop(), on an array that is not empty: the last element taken off.
pop(openBlocks) ==
  [last |-> openBlocks[Len(openBlocks)], rest |-> SubSeq(openBlocks, 1, Len(openBlocks) - 1)]

\* The body of the loop over the lines: st holds suppressions and openBlocks.
ParseLine(st, line, lineNum) ==
  LET blockStartMatch == IGNORE_BLOCK_START(line)
      lineMatch == IGNORE_CURRENT_LINE(line)
      nextLineMatch == IGNORE_NEXT_LINE(line)
  IN IF IGNORE_BLOCK_END(line)
     THEN IF Len(st.openBlocks) > 0
          THEN LET last == pop(st.openBlocks).last
               IN [suppressions |->
                     Append(st.suppressions,
                            Suppression(last.kind, last.reason, last.startLine, lineNum)),
                   openBlocks |-> pop(st.openBlocks).rest]
          ELSE st
     ELSE IF /\ IsSome(blockStartMatch)
             /\ ~IsSome(lineMatch)
             /\ ~IsSome(IGNORE_NEXT_LINE(WithoutBlockStart(line)))
     THEN IF IsValidKind(Get(blockStartMatch).kind)
          THEN [st EXCEPT !.openBlocks =
                  Append(@, [kind |-> Get(blockStartMatch).kind,
                             reason |-> cleanBlockReason(Get(blockStartMatch).reason),
                             startLine |-> BlockStartLine(lineNum)])]
          ELSE st
     ELSE IF IsSome(lineMatch)
     THEN IF IsValidKind(Get(lineMatch).kind)
          THEN [st EXCEPT !.suppressions =
                  Append(@, Suppression(Get(lineMatch).kind,
                                        TrimReason(Get(lineMatch).reason),
                                        lineNum, lineNum))]
          ELSE st
     ELSE IF IsSome(nextLineMatch)
     THEN IF IsValidKind(Get(nextLineMatch).kind)
          THEN [st EXCEPT !.suppressions =
                  Append(@, Suppression(Get(nextLineMatch).kind,
                                        TrimReason(Get(nextLineMatch).reason),
                                        NextLineTarget(lineNum), NextLineTarget(lineNum)))]
          ELSE st
     ELSE st

RECURSIVE ParseLines(_, _, _)
ParseLines(st, lines, i) ==
  IF i > Len(lines) THEN st
  ELSE ParseLines(ParseLine(st, lines[i], i), lines, i + 1)

parseInlineSuppressions(source) ==
  ParseLines([suppressions |-> <<>>, openBlocks |-> <<>>], Split(source, "\n"), 1).suppressions

\* The loop of isLineSuppressed, from the i-th suppression on.
RECURSIVE SuppressedFrom(_, _, _, _)
SuppressedFrom(line, kind, suppressions, i) ==
  IF i > Len(suppressions) THEN None
  ELSE LET sup == suppressions[i]
       IN IF line < sup.startLine \/ line > sup.endLine
          THEN SuppressedFrom(line, kind, suppressions, i + 1)
          ELSE IF sup.kind = <<"*">> \/ sup.kind = kind THEN Some(sup)
          ELSE SuppressedFrom(line, kind, suppressions, i + 1)

\* The search of isLineSuppressed, started after the first suppression.
FirstSuppressionSkipped(line, kind, suppressions) ==
  SuppressedFrom(line, kind, suppressions, 2)

isLineSuppressed(line, kind, suppressions) ==
  SuppressedFrom(line, kind, suppressions, 1)

\* Array.join("\n")
RECURSIVE Join(_)
Join(lines) ==
  IF Len(lines) = 0 THEN <<>>
  ELSE IF Len(lines) = 1 THEN lines[1]
  ELSE lines[1] \o <<"\n">> \o Join(Tail(lines))

Deprecated == <<"deprecated-api">>
Removed == <<"removed-api">>
Wildcard == <<"*">>
InvalidKind == <<"invalid-kind">>

CodeLine == <<"code">>
\* // doxy-ignore <kind>
NextLineComment(kind) == <<"/", "/", " ", "doxy-ignore", " ">> \o kind
\* // doxy-ignore <kind> -- why
NextLineReasonComment(kind) == NextLineComment(kind) \o <<" ", "--", " ", "why">>
\* code // doxy-ignore-line <kind>
CurrentLineComment(kind) == <<"code", " ", "/", "/", " ", "doxy-ignore-line", " ">> \o kind
\* /* <word> <kind> */
BlockComment(word, kind) == <<"/", "*", " ", word, " ">> \o kind \o <<" ", "*", "/">>
\* /* doxy-ignore-start <kind> -- why */
BlockStartReasonComment(kind) ==
  <<"/", "*", " ", "doxy-ignore-start", " ">> \o kind \o <<" ", "--", " ", "why", " ", "*", "/">>
\* /* doxy-ignore-end */
BlockEndComment == <<"/", "*", " ", "doxy-ignore-end", " ", "*", "/">>

\* The lines of a file with line directives: in // comments, in block comments,
\* and with a carriage return left at the end of the line.
DirectiveLines ==
  {CodeLine,
   NextLineComment(Deprecated), NextLineComment(Wildcard), NextLineComment(InvalidKind),
   NextLineReasonComment(Deprecated),
   CurrentLineComment(Deprecated), CurrentLineComment(InvalidKind),
   BlockComment("doxy-ignore", Deprecated), BlockComment("doxy-ignore-line", Deprecated),
   NextLineComment(Deprecated) \o <<"\r">>}

\* The lines of a file with block directives.
BlockLines ==
  {CodeLine,
   BlockComment("doxy-ignore-start", Deprecated), BlockStartReasonComment(Deprecated),
   BlockComment("doxy-ignore-start", InvalidKind),
   BlockEndComment,
   NextLineComment(Deprecated), NextLineComment(InvalidKind)}

SourceLines == Split(inline.source, "\n")

\* parseInlineSuppressions(source)
ParseInlineSuppressions ==
  /\ ~inline.parsed
  /\ inline' = [inline EXCEPT !.parsed = TRUE,
                              !.suppressions = parseInlineSuppressions(inline.source)]
  /\ UNCHANGED <<names, lockfile, cache, tsfiles, store, query, resolved, ast, tracked, resolution, analysis, ids,
                 loading, hashed, contexts, depmap>>

\* isLineSuppressed(line, kind, suppressions), on the suppressions of the file
IsLineSuppressed ==
  /\ inline.parsed
  /\ \E line \in 1..(Len(SourceLines) + 1), kind \in {Deprecated, Removed} :
       inline' = [inline EXCEPT
                    !.asked = Some([line |-> line, kind |-> kind]),
                    !.answer = isLineSuppressed(line, kind, inline.suppressions)]
  /\ UNCHANGED <<names, lockfile, cache, tsfiles, store, query, resolved, ast, tracked, resolution, analysis, ids,
                 loading, hashed, contexts, depmap>>

NextInline == ParseInlineSuppressions \/ IsLineSuppressed

IdleButInline ==
  /\ IdleStore /\ IdleResolver /\ IdleAnalyzer /\ IdleIds
  /\ loading = NoLoading /\ hashed = <<>> /\ contexts = <<>> /\ depmap = NoDepmap
  /\ IdleFiles

InitDirectives ==
  /\ \E lines \in SeqsUpTo(DirectiveLines, MaxDirectiveLines) :
       inline = [NoInline EXCEPT !.source = Join(lines)]
  /\ IdleButInline

SpecDirectives == InitDirectives /\ [][NextInline]_vars

InitBlocks ==
  /\ \E lines \in SeqsUpTo(BlockLines, MaxBlockLines) :
       inline = [NoInline EXCEPT !.source = Join(lines)]
  /\ IdleButInline

SpecBlocks == InitBlocks /\ [][NextInline]_vars

\* ---------------------------------------------- inline suppressions: claims

\* The kinds of the directives `word <kind>` a line carries, whatever the comment
\* around them: the word, a space, and a kind that ends there.
CarriedKinds(line, word) ==
  {<<line[i + 2]>> : i \in {k \in 1..(Len(line) - 2) :
                             /\ line[k] = word
                             /\ line[k + 1] = " "
                             /\ IsKindChar(line[k + 2])
                             /\ (k + 2 = Len(line) \/ ~IsKindChar(line[k + 3]))}}
Carries(line, word) == CarriedKinds(line, word) # {}
CarriedKind(line, word) == CHOOSE kind \in CarriedKinds(line, word) : TRUE
HasBlockDirective(line) ==
  \E i \in 1..Len(line) : line[i] \in {"doxy-ignore-start", "doxy-ignore-end"}

Range(kind, startLine, endLine) ==
  [kind |-> kind, startLine |-> startLine, endLine |-> endLine]
RangeOf(sup) == Range(sup.kind, sup.startLine, sup.endLine)
RangesOf(sups) == [i \in 1..Len(sups) |-> RangeOf(sups[i])]

\* What the line directives of the lines up to n ask for, in the order of the
\* lines: the next line for doxy-ignore, the line itself for doxy-ignore-line.
RECURSIVE LineRangesUpTo(_, _)
LineRangesUpTo(lines, n) ==
  IF n = 0 THEN <<>>
  ELSE LineRangesUpTo(lines, n - 1) \o
       (IF Carries(lines[n], "doxy-ignore-line")
           /\ CarriedKind(lines[n], "doxy-ignore-line") \in VALID_KINDS
        THEN <<Range(CarriedKind(lines[n], "doxy-ignore-line"), n, n)>>
        ELSE IF Carries(lines[n], "doxy-ignore")
                /\ CarriedKind(lines[n], "doxy-ignore") \in VALID_KINDS
        THEN <<Range(CarriedKind(lines[n], "doxy-ignore"), n + 1, n + 1)>>
        ELSE <<>>)

\* C11: in a file of line directives, each line n that carries `doxy-ignore
\* <kind>` with a valid kind yields exactly one suppression, of line n + 1 only,
\* and each line that carries `doxy-ignore-line <kind>` exactly one, of line n
\* only.
C11_LineDirectives ==
  (inline.parsed /\ \A n \in 1..Len(SourceLines) : ~HasBlockDirective(SourceLines[n])) =>
    RangesOf(inline.suppressions) = LineRangesUpTo(SourceLines, Len(SourceLines))

IsBlockEnd(line) == \E i \in 1..Len(line) : line[i] = "doxy-ignore-end"
IsBlockStart(line) == ~IsBlockEnd(line) /\ Carries(line, "doxy-ignore-start")

\* The line of the doxy-ignore-end that closes a block, the blocks in between
\* being closed by their own: the search is at line i with `depth` blocks open in
\* between; 0 when the block is never closed.
RECURSIVE ClosingLine(_, _, _)
ClosingLine(lines, i, depth) ==
  IF i > Len(lines) THEN 0
  ELSE IF IsBlockEnd(lines[i])
       THEN IF depth = 0 THEN i ELSE ClosingLine(lines, i + 1, depth - 1)
       ELSE IF IsBlockStart(lines[i]) THEN ClosingLine(lines, i + 1, depth + 1)
       ELSE ClosingLine(lines, i + 1, depth)

BlockEndOf(lines, start) == ClosingLine(lines, start + 1, 0)

AllBlockKindsValid(lines) ==
  \A n \in 1..Len(lines) :
    IsBlockStart(lines[n]) => CarriedKind(lines[n], "doxy-ignore-start") \in VALID_KINDS

C13_FirstMatchingSuppression ==
  IsSome(inline.asked) =>
    LET L == Get(inline.asked).line
        K == Get(inline.asked).kind
        sups == inline.suppressions
        hits == {i \in 1..Len(sups) :
                   /\ sups[i].startLine <= L /\ L <= sups[i].endLine
                   /\ sups[i].kind \in {Wildcard, K}}
    IN /\ hits = {} <=> inline.answer = None
       /\ hits # {} =>
            inline.answer = Some(sups[CHOOSE i \in hits : \A j \in hits : i <= j])
       /\ IsSome(inline.answer) => Get(inline.answer).kind \in {Wildcard, K}

\* A line covered by two suppressions that both apply, the second of which
\* differs from the first, and by the query's answer the first.
C13_Witness ==
  /\ IsSome(inline.asked) /\ IsSome(inline.answer)
  /\ \E i, j \in 1..Len(inline.suppressions) :
       /\ i < j
       /\ inline.suppressions[i] # inline.suppressions[j]
       /\ inline.answer = Some(inline.suppressions[i])
       /\ inline.suppressions[j].startLine <= Get(inline.asked).line
       /\ Get(inline.asked).line <= inline.suppressions[j].endLine
       /\ inline.suppressions[j].kind \in {Wildcard, Get(inline.asked).kind}

\* Whether a line carries a directive whose kind is no kind.
HasUnknownKind(line) ==
  \/ IsBlockStart(line) /\ CarriedKind(line, "doxy-ignore-start") \notin VALID_KINDS
  \/ /\ ~HasBlockDirective(line)
     /\ \E word \in {"doxy-ignore", "doxy-ignore-line"} :
          Carries(line, word) /\ CarriedKind(line, word) \notin VALID_KINDS

\* The lines that make up the directives of unknown kind: the lines that carry
\* them and, for a block, the doxy-ignore-end that closes it.
UnknownKindLines(lines) ==
  {n \in 1..Len(lines) :
     \/ HasUnknownKind(lines[n])
     \/ \E start \in 1..Len(lines) :
          /\ IsBlockStart(lines[start]) /\ HasUnknownKind(lines[start])
          /\ BlockEndOf(lines, start) = n}

\* The file with those directives taken out, its lines left in place.
WithoutUnknownKinds(lines) ==
  [n \in 1..Len(lines) |-> IF n \in UnknownKindLines(lines) THEN CodeLine ELSE lines[n]]

\* C14: a directive whose kind is none of the six kinds nor * yields no
\* suppression and no error, and leaves the suppressions of the other directives
\* as they are without it.
C14_UnknownKindsIgnored ==
  inline.parsed =>
    /\ \A i \in 1..Len(inline.suppressions) : inline.suppressions[i].kind \in VALID_KINDS
    /\ inline.suppressions = parseInlineSuppressions(Join(WithoutUnknownKinds(SourceLines)))

\* ------------------------------------------------- authority store: failures

\* Stores that differ in availableIn (a string semver cannot read included), in
\* one signature and in one deprecation entry.
InitStore ==
  /\ \E r \in AnalyzerRanges \cup {InvalidRange},
        sigs \in SeqsUpTo(Signatures, 1), deps \in SeqsUpTo(Deprecations, 1) :
       store = StoreOf(r, sigs, deps)
  /\ InitQuery
  /\ IdleResolver /\ IdleAnalyzer /\ IdleIds /\ IdleRest

SpecStore == InitStore /\ [][NextStore]_vars

AskedKnown == Key(Asked.package, Asked.export) \in DOMAIN store.specs

\* C15: when the version asked for cannot be coerced and (package, export) is
\* known, getApiSpec returns a ResolvedApiSpec with available = false, isFuture =
\* false, no activeSignature and no activeDeprecation.
C15_UncoercibleVersion ==
  (IsSome(query) /\ AskedKnown /\ AskedVersion = <<>>) =>
    /\ resolved.tag = "resolved"
    /\ ~resolved.available
    /\ ~resolved.isFuture
    /\ resolved.activeSignature = None
    /\ resolved.activeDeprecation = None

\* A query with a version that cannot be coerced, of a symbol that has a
\* signature and a deprecation entry.
C15_Witness ==
  /\ IsSome(query) /\ AskedKnown /\ AskedVersion = <<>>
  /\ resolved.tag = "resolved"
  /\ Len(TheSpec.signatures) > 0
  /\ Len(TheSpec.deprecations) > 0

\* C16: getApiSpec never fails: it returns undefined exactly when (package,
\* export) is not in the store and a ResolvedApiSpec otherwise, whatever the
\* stored availableIn, signatures and deprecations are.
C16_QueriesNeverFail ==
  IsSome(query) =>
    /\ resolved.tag = "undefined" <=> ~AskedKnown
    /\ AskedKnown => resolved.tag = "resolved"

\* ------------------------------------------------------- loading the store

\* A file of the directory: absent, text that is not JSON, JSON the schema
\* rejects, or JSON the schema accepts (with the parsed value).
Missing == [exists |-> FALSE, json |-> FALSE, valid |-> FALSE, value |-> <<>>]
NotJson == [exists |-> TRUE, json |-> FALSE, valid |-> FALSE, value |-> <<>>]
SchemaInvalid == [exists |-> TRUE, json |-> TRUE, valid |-> FALSE, value |-> <<>>]
Valid(value) == [exists |-> TRUE, json |-> TRUE, valid |-> TRUE, value |-> value]

\* readFile, JSON.parse and schema.parse of one file: the parsed value, or the
\* error the first failing call throws.
ReadParsed(file) ==
  IF ~file.exists THEN [threw |-> "ENOENT", value |-> <<>>]
  ELSE IF ~file.json THEN [threw |-> "SyntaxError", value |-> <<>>]
  ELSE IF ~file.valid THEN [threw |-> "ZodError", value |-> <<>>]
  ELSE [threw |-> "none", value |-> file.value]

\* for (const spec of dataFile.specs) specs.set(key, spec)
RECURSIVE SetSpecs(_, _, _)
SetSpecs(specs, fileSpecs, i) ==
  IF i > Len(fileSpecs) THEN specs
  ELSE SetSpecs(MapSet(specs, Key(fileSpecs[i].package, fileSpecs[i].export), fileSpecs[i]),
                fileSpecs, i + 1)

Loaded(dir, outcome, error, specs, packages) ==
  [dir |-> Some(dir), outcome |-> outcome, error |-> error, specs |-> specs,
   packages |-> packages]

\* for (const entry of manifest.packages): a failing file ends the call with
\* its error; the store is built after the last entry.
RECURSIVE LoadEntries(_, _, _, _, _)
LoadEntries(dir, entries, i, specs, packages) ==
  IF i > Len(entries) THEN Loaded(dir, "store", "none", specs, packages)
  ELSE LET read == ReadParsed(dir.files[entries[i].specFile])
       IN IF read.threw # "none" THEN Loaded(dir, "threw", read.threw, <<>>, {})
          ELSE LoadEntries(dir, entries, i + 1,
                           SetSpecs(specs, read.value.specs, 1),
                           packages \cup {read.value.package})

loadAuthorityFromDir(dir) ==
  LET read == ReadParsed(dir.manifest)
  IN IF read.threw # "none" THEN Loaded(dir, "threw", read.threw, <<>>, {})
     ELSE LoadEntries(dir, read.value.packages, 1, <<>>, {})

\* The directories: two data files, each in any condition, and a manifest in
\* any condition that names up to MaxPackages of them.
Next_ == <<"next">>
ReactFile == "react.json"
NextFile == "next.json"
SpecFiles == {ReactFile, NextFile}

ApiSpecOf(packageName, exportName, range) ==
  [package |-> packageName, export |-> exportName, kind |-> "function",
   availableIn |-> range, signatures |-> <<>>, deprecations |-> <<>>]

AnyRange == [valid |-> TRUE, comps |-> <<>>]

DataFiles ==
  {[package |-> React, specs |-> <<ApiSpecOf(React, Fn, AnyRange)>>],
   [package |-> Next_, specs |-> <<ApiSpecOf(Next_, Fn, AnyRange),
                                   ApiSpecOf(Next_, Other, AnyRange)>>],
   [package |-> Next_, specs |-> <<ApiSpecOf(React, Fn, InvalidRange)>>]}

Entries == [name : {React}, specFile : SpecFiles]

Manifests ==
  [dataVersion : {TestVersion}, packages : SeqsUpTo(Entries, MaxPackages)]

FileStates(values) == {Missing, NotJson, SchemaInvalid} \cup {Valid(v) : v \in values}

Directories ==
  [manifest : FileStates(Manifests), files : [SpecFiles -> FileStates(DataFiles)]]

\* loadAuthorityFromDir(dir)
LoadAuthorityFromDir ==
  /\ loading.outcome = "none"
  /\ IsSome(loading.dir)
  /\ loading' = loadAuthorityFromDir(Get(loading.dir))
  /\ UNCHANGED <<names, lockfile, cache, tsfiles, store, query, resolved, ast, tracked, resolution, analysis, ids,
                 inline, hashed, contexts, depmap>>

NextLoader == LoadAuthorityFromDir

InitLoader ==
  /\ \E dir \in Directories : loading = [NoLoading EXCEPT !.dir = Some(dir)]
  /\ IdleStore /\ IdleResolver /\ IdleAnalyzer /\ IdleIds
  /\ inline = NoInline /\ hashed = <<>> /\ contexts = <<>> /\ depmap = NoDepmap
  /\ IdleFiles

SpecLoader == InitLoader /\ [][NextLoader]_vars

\* What a caller sees of a directory without loading it: the manifest or a data
\* file it names is missing, is not JSON or fails its schema.
Unreadable(file) == ~file.exists \/ ~file.json \/ ~file.valid
Referenced(dir) ==
  {dir.manifest.value.packages[i].specFile : i \in 1..Len(dir.manifest.value.packages)}
Broken(dir) ==
  \/ Unreadable(dir.manifest)
  \/ \E f \in Referenced(dir) : Unreadable(dir.files[f])

\* The errors readFile, JSON.parse and a schema's parse throw for any file.
LibraryErrors == {"ENOENT", "SyntaxError", "ZodError"}

LoadDone == loading.outcome # "none"
LoadedDir == Get(loading.dir)
StoredSpecs == {loading.specs[i].value : i \in 1..Len(loading.specs)}
FileSpecs(dir, f) ==
  {dir.files[f].value.specs[i] : i \in 1..Len(dir.files[f].value.specs)}

\* C17: loading is all-or-nothing: when the manifest or a data file it names is
\* missing, is not JSON or fails its schema, the load ends with an error of the
\* authority's own kind and returns no store; otherwise it returns a store that
\* holds the specs of every data file the manifest names.
C17_AllOrNothing ==
  LoadDone =>
    IF Broken(LoadedDir)
    THEN /\ loading.outcome = "threw"
         /\ loading.error \notin LibraryErrors \cup {"none"}
         /\ loading.specs = <<>>
    ELSE /\ loading.outcome = "store"
         /\ \A f \in Referenced(LoadedDir) : FileSpecs(LoadedDir, f) \subseteq StoredSpecs

\* The part of C17 about the store alone: no store on failure and a store on
\* success, whatever the error is.
LoadIsAllOrNothing ==
  LoadDone =>
    IF Broken(LoadedDir)
    THEN loading.outcome = "threw" /\ loading.specs = <<>> /\ loading.packages = {}
    ELSE loading.outcome = "store"

\* ------------------------------------------------ repo context: context hash

\* A Record<string, T> is the sequence of its entries in insertion order, as
\* Object.entries lists them. Names are single tokens; versions, ranges and
\* option values are texts, sequences of tokens.
Entry(key, value) == [key |-> key, value |-> value]

\* a.localeCompare(b) for the names used here: their places in the collation.
Collation == <<"@/*", "lodash", "next", "nextjs", "react", "~/*">>
Place(name) == CHOOSE i \in 1..Len(Collation) : Collation[i] = name
localeCompare(a, b) == Place(a) - Place(b)

\* Array.prototype.sort with the comparator of the keys (a stable sort).
RECURSIVE InsertEntry(_, _)
InsertEntry(sorted, e) ==
  IF sorted = <<>> THEN <<e>>
  ELSE LET last == sorted[Len(sorted)]
       IN IF localeCompare(e.key, last.key) >= 0 THEN Append(sorted, e)
          ELSE Append(InsertEntry(SubSeq(sorted, 1, Len(sorted) - 1), e), last)

RECURSIVE SortLoop(_)
SortLoop(entries) ==
  IF entries = <<>> THEN <<>>
  ELSE InsertEntry(SortLoop(SubSeq(entries, 1, Len(entries) - 1)), entries[Len(entries)])

\* The sort left out: the entries in the order they came in.
SortEntriesAsGiven(entries) == entries

SortEntries(entries) == SortLoop(entries)

\* x ?? ""
OrEmpty(o) == IF IsSome(o) THEN Get(o) ELSE <<>>

\* if (x): undefined and "" are both falsy
Truthy(o) == IsSome(o) /\ Get(o) # <<>>

\* values.join(",")
RECURSIVE JoinValues(_)
JoinValues(values) ==
  IF values = <<>> THEN <<>>
  ELSE IF Len(values) = 1 THEN <<values[1]>>
  ELSE <<values[1], ",">> \o JoinValues(Tail(values))

\* hash.update of one template string per element, in order.
RECURSIVE UpdateAll(_, _, _)
UpdateAll(hash, elems, i) ==
  IF i > Len(elems) THEN hash ELSE UpdateAll(hash \o elems[i], elems, i + 1)

DepUpdate(e) ==
  <<"dep:", e.key, ":">> \o OrEmpty(e.value.resolvedVersion) \o <<":">>
    \o e.value.declaredRange
FwUpdate(e) == <<"fw:", e.value.id, ":">> \o e.value.version \o <<":", e.value.confidence>>
PathUpdate(e) == <<"path:", e.key, ":">> \o JoinValues(e.value)

\* SHA-256 taken as collision-free: the digest is the text that was fed in.
computeContextHash(dependencies, frameworks, tsconfig) ==
  LET sortedDeps == SortEntries(dependencies)
      sortedFrameworks ==
        SortEntries([i \in 1..Len(frameworks) |-> Entry(frameworks[i].id, frameworks[i])])
      h1 == UpdateAll(<<>>, [i \in 1..Len(sortedDeps) |-> DepUpdate(sortedDeps[i])], 1)
      h2 == UpdateAll(h1, [i \in 1..Len(sortedFrameworks) |-> FwUpdate(sortedFrameworks[i])], 1)
      h3 == IF Truthy(tsconfig.baseUrl) THEN h2 \o <<"baseUrl:">> \o Get(tsconfig.baseUrl) ELSE h2
      h4 == IF Truthy(tsconfig.jsx) THEN h3 \o <<"jsx:">> \o Get(tsconfig.jsx) ELSE h3
  IN IF IsSome(tsconfig.paths)
     THEN LET sortedPaths == SortEntries(Get(tsconfig.paths))
          IN UpdateAll(h4, [i \in 1..Len(sortedPaths) |-> PathUpdate(sortedPaths[i])], 1)
     ELSE h4

\* The inputs: what buildDependencyMap, detectFrameworks and readTsconfig can
\* produce, and the same values with their entries in another order.
DependencyInfo(resolvedVersion, declaredRange) ==
  [resolvedVersion |-> resolvedVersion, declaredRange |-> declaredRange]

DependencyEntries ==
  {Entry("react", DependencyInfo(Some(<<"18.2.0">>), <<"^", "18.0.0">>)),
   Entry("react", DependencyInfo(None, <<"^", "18.0.0">>)),
   Entry("next", DependencyInfo(Some(<<"14.1.0">>), <<"^", "14.0.0">>)),
   Entry("lodash", DependencyInfo(None, <<"*">>))}

DetectedFramework(id, name, version, confidence) ==
  [id |-> id, name |-> name, version |-> version, confidence |-> confidence]

Frameworks ==
  {DetectedFramework("nextjs", "Next.js", <<"14.1.0">>, "lockfile"),
   DetectedFramework("react", "React", <<"18.2.0">>, "lockfile"),
   DetectedFramework("react", "React", <<"18.0.0">>, "manifest")}

PathEntries ==
  {Entry("@/*", <<"./src/*">>), Entry("~/*", <<"./lib/*", "./vendor/*">>)}

DistinctSeqs(S, n, Id(_)) ==
  {s \in SeqsUpTo(S, n) : \A i, j \in 1..Len(s) : i # j => Id(s[i]) # Id(s[j])}
KeyOf(e) == e.key
IdOf(fw) == fw.id

TsconfigInfos ==
  [paths : {None} \cup {Some(m) : m \in DistinctSeqs(PathEntries, MaxEntries, KeyOf)},
   baseUrl : {None, Some(<<".">>)},
   jsx : {None, Some(<<"react-jsx">>)}]

HashInputs ==
  [dependencies : DistinctSeqs(DependencyEntries, MaxEntries, KeyOf),
   frameworks : DistinctSeqs(Frameworks, 2, IdOf),
   tsconfig : TsconfigInfos]

Elements(s) == {s[i] : i \in 1..Len(s)}
Reordered(s) == {t \in [1..Len(s) -> Elements(s)] : Elements(t) = Elements(s)}
ReorderedPaths(paths) ==
  IF IsSome(paths) THEN {Some(m) : m \in Reordered(Get(paths))} ELSE {None}

Reorderings(in) ==
  {[dependencies |-> d, frameworks |-> f,
    tsconfig |-> [in.tsconfig EXCEPT !.paths = p]] :
     d \in Reordered(in.dependencies), f \in Reordered(in.frameworks),
     p \in ReorderedPaths(in.tsconfig.paths)}

HashCall(in) == [in |-> in, hash |-> None]

\* computeContextHash(dependencies, frameworks, tsconfig)
ComputeContextHash ==
  \E i \in 1..Len(hashed) :
    /\ hashed[i].hash = None
    /\ hashed' = [hashed EXCEPT ![i].hash =
                    Some(computeContextHash(hashed[i].in.dependencies,
                                            hashed[i].in.frameworks,
                                            hashed[i].in.tsconfig))]
    /\ UNCHANGED <<names, lockfile, cache, tsfiles, store, query, resolved, ast, tracked, resolution, analysis, ids,
                   inline, loading, contexts, depmap>>

NextHash == ComputeContextHash

InitHash ==
  /\ \E in \in HashInputs : \E other \in Reorderings(in) :
       hashed = <<HashCall(in), HashCall(other)>>
  /\ IdleStore /\ IdleResolver /\ IdleAnalyzer /\ IdleIds
  /\ inline = NoInline /\ loading = NoLoading /\ contexts = <<>> /\ depmap = NoDepmap
  /\ IdleFiles

SpecHash == InitHash /\ [][NextHash]_vars

SameUpToOrder(a, b) ==
  /\ Elements(a.dependencies) = Elements(b.dependencies)
  /\ Len(a.dependencies) = Len(b.dependencies)
  /\ Elements(a.frameworks) = Elements(b.frameworks)
  /\ Len(a.frameworks) = Len(b.frameworks)
  /\ a.tsconfig.baseUrl = b.tsconfig.baseUrl
  /\ a.tsconfig.jsx = b.tsconfig.jsx
  /\ IsSome(a.tsconfig.paths) = IsSome(b.tsconfig.paths)
  /\ IsSome(a.tsconfig.paths) =>
       /\ Elements(Get(a.tsconfig.paths)) = Elements(Get(b.tsconfig.paths))
       /\ Len(Get(a.tsconfig.paths)) = Len(Get(b.tsconfig.paths))

\* C18: inputs that differ only in the order of the dependency map's keys, of
\* the framework list or of the path-alias keys have the same context hash.
C18_OrderInvariantHash ==
  \A i, j \in 1..Len(hashed) :
    (IsSome(hashed[i].hash) /\ IsSome(hashed[j].hash)
       /\ SameUpToOrder(hashed[i].in, hashed[j].in))
      => hashed[i].hash = hashed[j].hash

\* Both inputs hashed, the second with the dependencies, the frameworks and the
\* path aliases each in the other order.
C18_Witness ==
  /\ Len(hashed) = 2
  /\ IsSome(hashed[1].hash) /\ IsSome(hashed[2].hash)
  /\ SameUpToOrder(hashed[1].in, hashed[2].in)
  /\ hashed[1].in.dependencies # hashed[2].in.dependencies
  /\ hashed[1].in.frameworks # hashed[2].in.frameworks
  /\ hashed[1].in.tsconfig.paths # hashed[2].in.tsconfig.paths

\* -------------------------------------------- repo context: dependency map

\* { ...target, ...source }: the source's own entries set in their order; an
\* absent (undefined) source adds nothing.
RECURSIVE SpreadInto(_, _, _)
SpreadInto(target, entries, i) ==
  IF i > Len(entries) THEN target
  ELSE SpreadInto(MapSet(target, entries[i].key, entries[i].value), entries, i + 1)

Spread(target, source) ==
  IF IsSome(source) THEN SpreadInto(target, Get(source), 1) ELSE target

\* What every plain object inherits from Object.prototype under a name a
\* package can have.
ObjectPrototype == <<Entry("constructor", <<"function Object">>)>>

\* obj[name] on a plain object: the own property, else the inherited one, else
\* undefined.
PropertyOf(obj, name) ==
  IF MapHas(obj, name) THEN Some(MapGet(obj, name))
  ELSE IF MapHas(ObjectPrototype, name) THEN Some(MapGet(ObjectPrototype, name))
  ELSE None

\* for (const [name, declaredRange] of Object.entries(allDeclared))
RECURSIVE DependencyLoop(_, _, _, _)
DependencyLoop(deps, allDeclared, resolvedVersions, i) ==
  IF i > Len(allDeclared) THEN deps
  ELSE LET name == allDeclared[i].key
           resolvedVersion == PropertyOf(resolvedVersions, name)
       IN DependencyLoop(
            MapSet(deps, name, DependencyInfo(resolvedVersion, allDeclared[i].value)),
            allDeclared, resolvedVersions, i + 1)

buildDependencyMap(manifest, resolvedVersions) ==
  LET allDeclared == Spread(Spread(<<>>, manifest.devDependencies), manifest.dependencies)
  IN DependencyLoop(<<>>, allDeclared, resolvedVersions, 1)

\* The manifests and the lockfile versions.
DeclaredEntries ==
  {Entry("react", <<"^", "18.0.0">>), Entry("react", <<"^", "17.0.0">>),
   Entry("next", <<"^", "14.0.0">>), Entry("constructor", <<"^", "1.0.0">>)}

ResolvedEntries ==
  {Entry("react", <<"18.2.0">>), Entry("next", <<"14.1.0">>),
   Entry("constructor", <<"1.0.0">>)}

Sections == {None} \cup {Some(m) : m \in DistinctSeqs(DeclaredEntries, MaxEntries, KeyOf)}

PackageJsons == [dependencies : Sections, devDependencies : Sections]

LockfileVersions == DistinctSeqs(ResolvedEntries, MaxEntries, KeyOf)

\* buildDependencyMap(manifest, resolvedVersions)
BuildDependencyMap ==
  /\ ~depmap.built
  /\ IsSome(depmap.manifest)
  /\ depmap' = [depmap EXCEPT
                  !.built = TRUE,
                  !.dependencies =
                    buildDependencyMap(Get(depmap.manifest), depmap.resolvedVersions)]
  /\ UNCHANGED <<names, lockfile, cache, tsfiles, store, query, resolved, ast, tracked, resolution, analysis, ids,
                 inline, loading, hashed, contexts>>

NextDependencies == BuildDependencyMap

InitDependencies ==
  /\ \E manifest \in PackageJsons, versions \in LockfileVersions :
       depmap = [NoDepmap EXCEPT !.manifest = Some(manifest),
                                 !.resolvedVersions = versions]
  /\ IdleStore /\ IdleResolver /\ IdleAnalyzer /\ IdleIds
  /\ inline = NoInline /\ loading = NoLoading /\ hashed = <<>> /\ contexts = <<>>
  /\ IdleFiles

SpecDependencies == InitDependencies /\ [][NextDependencies]_vars

Names(section) ==
  IF IsSome(section) THEN {Get(section)[i].key : i \in 1..Len(Get(section))} ELSE {}
Keys(map) == {map[i].key : i \in 1..Len(map)}
Declared == Get(depmap.manifest)
Pinned(name) == name \in Keys(depmap.resolvedVersions)

\* What the claim states of the entry of one package.
EntryAsClaimed(name) ==
  LET info == MapGet(depmap.dependencies, name)
  IN /\ info.declaredRange =
          IF name \in Names(Declared.dependencies)
          THEN MapGet(Get(Declared.dependencies), name)
          ELSE MapGet(Get(Declared.devDependencies), name)
     /\ IsSome(info.resolvedVersion) <=> Pinned(name)
     /\ Pinned(name) => info.resolvedVersion = Some(MapGet(depmap.resolvedVersions, name))

OneEntryPerDeclared ==
  /\ Keys(depmap.dependencies) = Names(Declared.dependencies) \cup Names(Declared.devDependencies)
  /\ Cardinality(Keys(depmap.dependencies)) = Len(depmap.dependencies)

\* C20: the dependency map has exactly one entry per package named in
\* dependencies or devDependencies and none else; the declared range is the one
\* of dependencies when the package is in both sections; the resolved version
\* is present exactly when the lockfile versions hold the package, with their
\* value.
C20_DependencyMap ==
  depmap.built =>
    /\ OneEntryPerDeclared
    /\ \A name \in Keys(depmap.dependencies) : EntryAsClaimed(name)

\* The same for the packages whose name no plain object inherits.
DependencyMapOfOwnNames ==
  depmap.built =>
    /\ OneEntryPerDeclared
    /\ \A name \in Keys(depmap.dependencies) \ Keys(ObjectPrototype) : EntryAsClaimed(name)

\* ------------------------------------------------- repo context: the builder

LOCKFILES ==
  <<[file |-> "pnpm-lock.yaml", pm |-> "pnpm"],
    [file |-> "yarn.lock", pm |-> "yarn"],
    [file |-> "package-lock.json", pm |-> "npm"]>>

\* The first lockfile of the list that the root holds; npm without a lockfile
\* when it holds none.
RECURSIVE DetectLoop(_, _)
DetectLoop(present, i) ==
  IF i > Len(LOCKFILES) THEN [pm |-> "npm", lockfilePath |-> None]
  ELSE IF LOCKFILES[i].file \in present
       THEN [pm |-> LOCKFILES[i].pm, lockfilePath |-> Some(LOCKFILES[i].file)]
       ELSE DetectLoop(present, i + 1)

detectPackageManager(present) == DetectLoop(present, 1)

FRAMEWORK_RULES ==
  <<[id |-> "nextjs", name |-> "Next.js", package |-> "next"],
    [id |-> "react", name |-> "React", package |-> "react"]>>

\* declaredRange.replace(/^[\^~>=<\s]+/, "")
RECURSIVE StripRangeOperators(_)
StripRangeOperators(range) ==
  IF range # <<>> /\ Head(range) \in {"^", "~", ">", "=", "<", " "}
  THEN StripRangeOperators(Tail(range))
  ELSE range

RECURSIVE FrameworkLoop(_, _, _, _)
FrameworkLoop(frameworks, dependencies, configOverrides, i) ==
  IF i > Len(FRAMEWORK_RULES) THEN frameworks
  ELSE LET rule == FRAMEWORK_RULES[i]
           override ==
             IF IsSome(configOverrides) THEN PropertyOf(Get(configOverrides), rule.id)
             ELSE None
           dep == PropertyOf(dependencies, rule.package)
       IN IF Truthy(override)
          THEN FrameworkLoop(
                 Append(frameworks,
                        DetectedFramework(rule.id, rule.name, Get(override), "manifest")),
                 dependencies, configOverrides, i + 1)
          ELSE IF ~IsSome(dep)
          THEN FrameworkLoop(frameworks, dependencies, configOverrides, i + 1)
          ELSE LET info == Get(dep)
                   version ==
                     IF IsSome(info.resolvedVersion) THEN Get(info.resolvedVersion)
                     ELSE StripRangeOperators(info.declaredRange)
                   confidence ==
                     IF Truthy(info.resolvedVersion) THEN "lockfile" ELSE "manifest"
               IN FrameworkLoop(
                    Append(frameworks,
                           DetectedFramework(rule.id, rule.name, version, confidence)),
                    dependencies, configOverrides, i + 1)

detectFrameworks(dependencies, configOverrides) ==
  FrameworkLoop(<<>>, dependencies, configOverrides, 1)

\* A project on disk: its root, the lockfiles it holds, what package.json, the
\* lockfile and tsconfig.json parse to, and the frameworks of the configuration.
buildRepoContext(project) ==
  LET manifest == project.manifest
      detected == detectPackageManager(project.lockfiles)
      resolvedVersions == IF IsSome(detected.lockfilePath) THEN project.versions ELSE <<>>
      dependencies == buildDependencyMap(manifest, resolvedVersions)
      frameworks == detectFrameworks(dependencies, project.frameworks)
      tsconfig == project.tsconfig
  IN [root |-> project.root,
      packageManager |-> detected.pm,
      dependencies |-> dependencies,
      frameworks |-> frameworks,
      tsconfig |-> tsconfig,
      contextHash |-> computeContextHash(dependencies, frameworks, tsconfig)]

Projects ==
  [root : {<<"/", "work", "/", "a">>, <<"/", "work", "/", "b">>},
   lockfiles : {{}, {"package-lock.json"}, {"pnpm-lock.yaml", "package-lock.json"}},
   manifest : {[dependencies |-> Some(<<e>>), devDependencies |-> None] :
                 e \in {Entry("react", <<"^", "18.0.0">>), Entry("next", <<"^", "14.0.0">>)}},
   versions : {<<>>, <<Entry("react", <<"18.2.0">>)>>},
   frameworks : {None, Some(<<Entry("react", <<"17.0.2">>)>>)},
   tsconfig : {[paths |-> None, baseUrl |-> None, jsx |-> None],
               [paths |-> Some(<<Entry("@/*", <<"./src/*">>)>>), baseUrl |-> Some(<<".">>),
                jsx |-> Some(<<"react-jsx">>)]}]

\* buildRepoContext(root, config)
BuildRepoContext ==
  /\ Len(contexts) < MaxContexts
  /\ \E project \in Projects : contexts' = Append(contexts, buildRepoContext(project))
  /\ UNCHANGED <<names, lockfile, cache, tsfiles, store, query, resolved, ast, tracked, resolution, analysis, ids,
                 inline, loading, hashed, depmap>>

NextContexts == BuildRepoContext

InitContexts ==
  /\ contexts = <<>>
  /\ IdleStore /\ IdleResolver /\ IdleAnalyzer /\ IdleIds
  /\ inline = NoInline /\ loading = NoLoading /\ hashed = <<>> /\ depmap = NoDepmap
  /\ IdleFiles

SpecContexts == InitContexts /\ [][NextContexts]_vars

\* Two contexts differ in what the hash is fed: a dependency's resolved version
\* or declared range, a framework's id, version or confidence, or the tsconfig
\* paths, baseUrl or jsx.
DifferInHashed(a, b) ==
  \/ Elements(a.dependencies) # Elements(b.dependencies)
  \/ {[id |-> f.id, version |-> f.version, confidence |-> f.confidence] :
        f \in Elements(a.frameworks)}
       # {[id |-> f.id, version |-> f.version, confidence |-> f.confidence] :
            f \in Elements(b.frameworks)}
  \/ a.tsconfig # b.tsconfig

\* C19: two contexts that differ in the project root, the package manager, a
\* dependency's resolved version or declared range, a framework's id, version
\* or confidence, or the tsconfig paths, baseUrl or jsx have different context
\* hashes.
C19_HashCoversContext ==
  \A i, j \in 1..Len(contexts) :
    (\/ contexts[i].root # contexts[j].root
     \/ contexts[i].packageManager # contexts[j].packageManager
     \/ DifferInHashed(contexts[i], contexts[j]))
      => contexts[i].contextHash # contexts[j].contextHash

\* The part of C19 about the dependencies, the frameworks and the tsconfig.
HashCoversHashedInputs ==
  \A i, j \in 1..Len(contexts) :
    DifferInHashed(contexts[i], contexts[j])
      => contexts[i].contextHash # contexts[j].contextHash

\* -------------------------------------------------- repo context: npm lockfile

\* Keys of the packages object are texts in which "node_modules/" is one token.
NodeModules == "node_modules/"

\* str.indexOf(ch, from), with 0 for -1.
IndexOfFrom(str, ch, from) ==
  LET hits == {i \in from..Len(str) : str[i] = ch}
  IN IF hits = {} THEN 0 ELSE CHOOSE i \in hits : \A j \in hits : i <= j

\* extractPackageName of the lockfile parser: the package a packages key names.
extractLockfilePackageName(key) ==
  IF LastIndexOf(key, NodeModules) = 0 THEN None
  ELSE LET lastIdx == LastIndexOf(key, NodeModules)
           rest == SubSeq(key, lastIdx + 1, Len(key))
       IN IF rest = <<>> THEN None
          ELSE IF StartsWith(rest, "@")
          THEN LET slashIdx == IndexOfFrom(rest, "/", 2)
                   secondSlash == IndexOfFrom(rest, "/", slashIdx + 1)
               IN IF slashIdx = 0 THEN Some(rest)
                  ELSE IF secondSlash = 0 THEN Some(rest)
                  ELSE Some(SubSeq(rest, 1, secondSlash - 1))
          ELSE LET slashIdx == IndexOf(rest, "/")
               IN IF slashIdx = 0 THEN Some(rest) ELSE Some(SubSeq(rest, 1, slashIdx - 1))

\* The names under which a plain object answers without an own property.
InheritedNames == {<<"constructor">>}

\* versions[name], as a truth value
HasVersion(versions, name) == MapHas(versions, name) \/ name \in InheritedNames

\* for (const [key, entry] of Object.entries(lock.packages))
RECURSIVE PackagesLoop(_, _, _)
PackagesLoop(versions, packages, i) ==
  IF i > Len(packages) THEN versions
  ELSE LET key == packages[i].key
           entry == packages[i].value
           name == extractLockfilePackageName(key)
       IN IF key = <<>> \/ ~Truthy(entry.version)
          THEN PackagesLoop(versions, packages, i + 1)
          ELSE IF IsSome(name) /\ ~HasVersion(versions, Get(name))
          THEN PackagesLoop(MapSet(versions, Get(name), Get(entry.version)), packages, i + 1)
          ELSE PackagesLoop(versions, packages, i + 1)

\* for (const [name, entry] of Object.entries(lock.dependencies))
RECURSIVE LockDependenciesLoop(_, _, _)
LockDependenciesLoop(versions, dependencies, i) ==
  IF i > Len(dependencies) THEN versions
  ELSE IF Truthy(dependencies[i].value.version)
  THEN LockDependenciesLoop(
         MapSet(versions, dependencies[i].key, Get(dependencies[i].value.version)),
         dependencies, i + 1)
  ELSE LockDependenciesLoop(versions, dependencies, i + 1)

parseNpmLockfile(lock) ==
  IF IsSome(lock.packages) THEN PackagesLoop(<<>>, Get(lock.packages), 1)
  ELSE IF IsSome(lock.dependencies)
  THEN LockDependenciesLoop(<<>>, Get(lock.dependencies), 1)
  ELSE <<>>

\* The lockfiles: the root entry, react at the top level (with and without a
\* version) and nested under two packages, and a scoped package.
TopLevelKey(name) == <<NodeModules>> \o name
NestedKey(parent, name) == <<NodeModules>> \o parent \o <<"/", NodeModules>> \o name
LockEntry(version) == [version |-> version]

ReactName == <<"react">>
ALib == <<"a-lib">>
SomeLib == <<"some-lib">>
ScopedName == <<"@", "s", "/", "n">>

PackageEntries ==
  {Entry(<<>>, LockEntry(None)),
   Entry(TopLevelKey(ReactName), LockEntry(Some(<<"18.2.0">>))),
   Entry(TopLevelKey(ReactName), LockEntry(None)),
   Entry(NestedKey(SomeLib, ReactName), LockEntry(Some(<<"17.0.2">>))),
   Entry(NestedKey(ALib, ReactName), LockEntry(Some(<<"16.14.0">>))),
   Entry(TopLevelKey(ScopedName), LockEntry(Some(<<"2.0.0">>)))}

NpmLockfiles ==
  {[packages |-> Some(m), dependencies |-> None] :
     m \in DistinctSeqs(PackageEntries, MaxLockEntries, KeyOf)}
  \cup
  {[packages |-> None, dependencies |-> d] :
     d \in {None, Some(<<Entry(ReactName, LockEntry(Some(<<"18.2.0">>)))>>)}}

\* parseNpmLockfile(content)
ParseNpmLockfile ==
  /\ ~lockfile.parsed
  /\ IsSome(lockfile.packages)
  /\ lockfile' = [lockfile EXCEPT
                    !.parsed = TRUE,
                    !.versions = parseNpmLockfile(Get(lockfile.packages))]
  /\ UNCHANGED <<names, store, query, resolved, ast, tracked, resolution, analysis, ids,
                 inline, loading, hashed, contexts, depmap, cache, tsfiles>>

NextLockfile == ParseNpmLockfile

InitLockfile ==
  /\ \E lock \in NpmLockfiles : lockfile = [NoLockfile EXCEPT !.packages = Some(lock)]
  /\ cache = NoCache /\ tsfiles = NoTsfiles /\ names = NoNames
  /\ IdleStore /\ IdleResolver /\ IdleAnalyzer /\ IdleIds
  /\ inline = NoInline /\ loading = NoLoading /\ hashed = <<>> /\ contexts = <<>>
  /\ depmap = NoDepmap

SpecLockfile == InitLockfile /\ [][NextLockfile]_vars

LockPackages ==
  IF IsSome(Get(lockfile.packages).packages) THEN Get(Get(lockfile.packages).packages)
  ELSE <<>>

\* A key that names the package below a second node_modules directory.
IsNestedKeyOf(key, name) ==
  /\ Len(key) > Len(name) + 1
  /\ SubSeq(key, Len(key) - Len(name), Len(key)) = <<NodeModules>> \o name
  /\ key[1] = NodeModules

\* C21: when the packages object holds a top-level entry node_modules/X with a
\* version and a nested entry <path>/node_modules/X, X resolves to the version
\* of the top-level entry, in whatever order the keys are.
C21_TopLevelWins ==
  lockfile.parsed =>
    \A i, j \in 1..Len(LockPackages) :
      \A name \in {ReactName, ScopedName} :
        (/\ LockPackages[i].key = TopLevelKey(name)
         /\ Truthy(LockPackages[i].value.version)
         /\ IsNestedKeyOf(LockPackages[j].key, name))
          => /\ MapHas(lockfile.versions, name)
             /\ MapGet(lockfile.versions, name) = Get(LockPackages[i].value.version)

\* The same when the top-level key comes before every nested key of the package.
TopLevelFirstWins ==
  lockfile.parsed =>
    \A i, j \in 1..Len(LockPackages) :
      \A name \in {ReactName, ScopedName} :
        (/\ LockPackages[i].key = TopLevelKey(name)
         /\ Truthy(LockPackages[i].value.version)
         /\ IsNestedKeyOf(LockPackages[j].key, name)
         /\ \A k \in 1..Len(LockPackages) :
              IsNestedKeyOf(LockPackages[k].key, name) => i < k)
          => /\ MapHas(lockfile.versions, name)
             /\ MapGet(lockfile.versions, name) = Get(LockPackages[i].value.version)

\* ------------------------------------------------------------ the cache file

\* A JSON object is the sequence of its entries. z.object(shape).parse(obj)
\* fails when a key of the shape is missing and returns the entries whose keys
\* the shape names: keys the shape does not name are stripped.
FileCacheEntryShape ==
  {"filePath", "contentHash", "authorityVersion", "repoContextHash", "importedPackages",
   "packageVersions", "unresolvedImports", "findings", "analyzedAt"}

CacheStoreShape == {"entries", "createdAt", "doxyVersion"}

ParseObject(shape, obj) ==
  IF \E k \in shape : ~MapHas(obj, k) THEN [threw |-> "ZodError", value |-> <<>>]
  ELSE [threw |-> "none", value |-> SelectSeq(obj, LAMBDA e : e.key \in shape)]

FileCacheEntrySchema(entry) == ParseObject(FileCacheEntryShape, entry)

\* z.record(FileCacheEntrySchema): every value parsed, the first failure thrown.
RECURSIVE ParseRecord(_, _, _)
ParseRecord(parsed, record, i) ==
  IF i > Len(record) THEN [threw |-> "none", value |-> parsed]
  ELSE LET entry == FileCacheEntrySchema(record[i].value)
       IN IF entry.threw # "none" THEN entry
          ELSE ParseRecord(Append(parsed, Entry(record[i].key, entry.value)), record, i + 1)

CacheStoreSchema(file) ==
  LET top == ParseObject(CacheStoreShape, file)
  IN IF top.threw # "none" THEN top
     ELSE LET entries == ParseRecord(<<>>, MapGet(top.value, "entries"), 1)
          IN IF entries.threw # "none" THEN entries
             ELSE [threw |-> "none", value |-> MapSet(top.value, "entries", entries.value)]

\* The cache files: entries for up to MaxCacheEntries paths, each complete,
\* complete with one key more, or lacking a key of the schema.
CompleteEntry(path) ==
  <<Entry("filePath", path), Entry("contentHash", "h1"), Entry("authorityVersion", "1.0.0"),
    Entry("repoContextHash", "h2"), Entry("importedPackages", <<"react">>),
    Entry("packageVersions", <<Entry("react", "18.2.0")>>),
    Entry("unresolvedImports", <<>>), Entry("findings", <<>>), Entry("analyzedAt", 1)>>

ExtendedEntry(path) == Append(CompleteEntry(path), Entry("symbolIndex", "v2"))
PartialEntry(path) == SubSeq(CompleteEntry(path), 1, 4)

CachePaths == {"a.ts", "b.ts", "c.ts"}

CachedEntries ==
  UNION {{Entry(p, CompleteEntry(p)), Entry(p, ExtendedEntry(p)), Entry(p, PartialEntry(p))} :
           p \in CachePaths}

CacheFiles ==
  {<<Entry("entries", es), Entry("createdAt", 1), Entry("doxyVersion", "0.1.0")>> :
     es \in DistinctSeqs(CachedEntries, MaxCacheEntries, KeyOf)}

\* reading the cache: the file parsed and validated through the schema
ReadCache ==
  /\ cache.outcome = "none"
  /\ IsSome(cache.file)
  /\ LET read == CacheStoreSchema(Get(cache.file))
     IN cache' = IF read.threw # "none" THEN [cache EXCEPT !.outcome = "threw"]
                 ELSE [cache EXCEPT !.outcome = "read", !.store = Some(read.value)]
  /\ UNCHANGED <<names, store, query, resolved, ast, tracked, resolution, analysis, ids,
                 inline, loading, hashed, contexts, depmap, lockfile, tsfiles>>

\* writing the cache back: the entries of the files that are gone deleted, the
\* others written as they are in memory
WriteCache ==
  /\ cache.outcome = "read"
  /\ \E gone \in SUBSET CachePaths :
       LET entries == MapGet(Get(cache.store), "entries")
           kept == SelectSeq(entries, LAMBDA e : e.key \notin gone)
       IN cache' = [cache EXCEPT !.outcome = "written",
                                 !.written = Some(MapSet(Get(cache.store), "entries", kept))]
  /\ UNCHANGED <<names, store, query, resolved, ast, tracked, resolution, analysis, ids,
                 inline, loading, hashed, contexts, depmap, lockfile, tsfiles>>

NextCache == ReadCache \/ WriteCache

InitCache ==
  /\ \E file \in CacheFiles : cache = [NoCache EXCEPT !.file = Some(file)]
  /\ lockfile = NoLockfile /\ tsfiles = NoTsfiles /\ names = NoNames
  /\ IdleStore /\ IdleResolver /\ IdleAnalyzer /\ IdleIds
  /\ inline = NoInline /\ loading = NoLoading /\ hashed = <<>> /\ contexts = <<>>
  /\ depmap = NoDepmap

SpecCache == InitCache /\ [][NextCache]_vars

FileEntries == MapGet(Get(cache.file), "entries")
WrittenEntries == MapGet(Get(cache.written), "entries")
AdditionalKeys(entry) ==
  {e \in Elements(entry) : e.key \notin FileCacheEntryShape}

\* C22: after a cache is read and written back, every entry that is kept still
\* has the keys that are not FileCacheEntry's, with their values.
C22_AdditionalKeysPreserved ==
  cache.outcome = "written" =>
    \A path \in Keys(WrittenEntries) :
      AdditionalKeys(MapGet(FileEntries, path))
        \subseteq AdditionalKeys(MapGet(WrittenEntries, path))

\* The keys of FileCacheEntry do survive the round trip.
KnownKeysPreserved ==
  cache.outcome = "written" =>
    \A path \in Keys(WrittenEntries) :
      \A k \in FileCacheEntryShape :
        MapGet(MapGet(WrittenEntries, path), k) = MapGet(MapGet(FileEntries, path), k)

\* ------------------------------------------------- package of an import source

\* Import sources: every text of up to MaxSourceLen tokens over the characters
\* that matter and two letters.
SourceTokens == {".", "/", "@", "a", "b"}
ImportSources == SeqsUpTo(SourceTokens, MaxSourceLen)

\* extractPackageName(source)
ExtractPackageName ==
  /\ ~names.done
  /\ IsSome(names.source)
  /\ names' = [names EXCEPT !.done = TRUE,
                            !.package = extractPackageName(Get(names.source))]
  /\ UNCHANGED <<store, query, resolved, ast, tracked, resolution, analysis, ids,
                 inline, loading, hashed, contexts, depmap, lockfile, cache, tsfiles>>

NextNames == ExtractPackageName

InitNames ==
  /\ \E source \in ImportSources : names = [NoNames EXCEPT !.source = Some(source)]
  /\ lockfile = NoLockfile /\ cache = NoCache /\ tsfiles = NoTsfiles
  /\ IdleStore /\ IdleResolver /\ IdleAnalyzer /\ IdleIds
  /\ inline = NoInline /\ loading = NoLoading /\ hashed = <<>> /\ contexts = <<>>
  /\ depmap = NoDepmap

SpecNames == InitNames /\ [][NextNames]_vars

Slashes(text) == Cardinality({i \in 1..Len(text) : text[i] = "/"})

\* p is the first n slash-delimited segments of s, joined by slashes: a prefix
\* of s with n - 1 slashes that ends where s ends or right before a slash.
IsFirstSegments(p, s, n) ==
  /\ Len(p) <= Len(s)
  /\ p = SubSeq(s, 1, Len(p))
  /\ Slashes(p) = n - 1
  /\ Len(p) = Len(s) \/ s[Len(p) + 1] = "/"

ExtractedFrom == Get(names.source)
IsRelative(s) == StartsWith(s, ".") \/ StartsWith(s, "/")

\* C23 as stated: no package for a source that starts with . or /, the first
\* two slash-delimited segments for one that starts with @, the first segment
\* otherwise.
C23_PackageOfSource ==
  names.done =>
    /\ IsRelative(ExtractedFrom) => names.package = None
    /\ StartsWith(ExtractedFrom, "@") =>
         IsSome(names.package) /\ IsFirstSegments(Get(names.package), ExtractedFrom, 2)
    /\ (~IsRelative(ExtractedFrom) /\ ~StartsWith(ExtractedFrom, "@")) =>
         IsSome(names.package) /\ IsFirstSegments(Get(names.package), ExtractedFrom, 1)

\* C23 amended: a source that starts with @ gives its first two segments when it
\* has a slash, and no package when it is a scope alone.
C23_PackageOfSourceAmended ==
  names.done =>
    /\ IsRelative(ExtractedFrom) => names.package = None
    /\ (StartsWith(ExtractedFrom, "@") /\ Slashes(ExtractedFrom) > 0) =>
         IsSome(names.package) /\ IsFirstSegments(Get(names.package), ExtractedFrom, 2)
    /\ (StartsWith(ExtractedFrom, "@") /\ Slashes(ExtractedFrom) = 0) =>
         names.package = None
    /\ (~IsRelative(ExtractedFrom) /\ ~StartsWith(ExtractedFrom, "@")) =>
         IsSome(names.package) /\ IsFirstSegments(Get(names.package), ExtractedFrom, 1)

\* An unscoped source with a subpath, extracted to its first segment.
C23_Witness ==
  /\ names.done
  /\ ExtractedFrom = <<"a", "/", "b">>
  /\ names.package = Some(<<"a">>)

\* -------------------------------------------- active signature: the tie-break

\* C24: among the signatures that apply to the version asked for, the active
\* signature is the one with the greatest `since`, and among those of equal
\* `since` the one that comes last in the signatures sequence.
C24_LastOfEqualSince ==
  (Answered /\ AskedVersion # <<>>) =>
    LET sigs == TheSpec.signatures
        inRange == {i \in 1..Len(sigs) : InSignatureRange(sigs[i], AskedVersion)}
        greatest == {i \in inRange :
                       \A j \in inRange :
                         SemverLte(SemverCoerce(sigs[j].since), SemverCoerce(sigs[i].since))}
    IN inRange # {} =>
         /\ IsSome(resolved.activeSignature)
         /\ Get(resolved.activeSignature) = sigs[LastOf(greatest)]

\* The same with the first of those of equal `since`.
FirstOfEqualSince ==
  (Answered /\ AskedVersion # <<>>) =>
    LET sigs == TheSpec.signatures
        inRange == {i \in 1..Len(sigs) : InSignatureRange(sigs[i], AskedVersion)}
        greatest == {i \in inRange :
                       \A j \in inRange :
                         SemverLte(SemverCoerce(sigs[j].since), SemverCoerce(sigs[i].since))}
    IN inRange # {} =>
         /\ IsSome(resolved.activeSignature)
         /\ Get(resolved.activeSignature) = sigs[CHOOSE i \in greatest : \A j \in greatest : i <= j]

\* ------------------------------------------------- import resolver: aliases

\* The named introductions whose local name differs from the imported name.
IsAlias(intro, k) ==
  intro[k].importKind = "named" /\ intro[k].local # intro[k].exportName
CallsOf(name) ==
  {n \in 1..Len(ast.callExpressions) : ast.callExpressions[n].callee = name}
IsLocal(intro, name) == \E m \in 1..Len(intro) : intro[m].local = name
NoSiteAt(location) == \A i \in 1..Len(Usages) : ~HasSiteAt(Usages[i], location)

\* What the claim states of the alias introduced by intro[k].
AliasResolved(intro, k) ==
  LET pair == Pair(intro[k].package, intro[k].exportName)
      aliasPair == Pair(intro[k].package, intro[k].local)
  IN /\ \A n \in CallsOf(intro[k].local) :
          \E i \in UsagesOf(pair) : HasSiteAt(Usages[i], ast.callExpressions[n].location)
     /\ \A i \in UsagesOf(aliasPair) :
          /\ \A n \in CallsOf(intro[k].local) :
               ~HasSiteAt(Usages[i], ast.callExpressions[n].location)
          /\ ~HasSiteAt(Usages[i], intro[k].location)
     /\ ~IsLocal(intro, intro[k].exportName) =>
          \A n \in CallsOf(intro[k].exportName) :
            NoSiteAt(ast.callExpressions[n].location)

IsBlockCommentForm(line, word) ==
  /\ Len(line) = 9
  /\ line = BlockComment(word, <<line[6]>>)

\* The same directive in a single-line comment: `// <word> <kind>`.
AsLineComment(line) ==
  IF IsBlockCommentForm(line, "doxy-ignore") \/ IsBlockCommentForm(line, "doxy-ignore-line")
  THEN <<"/", "/", " ", line[4], " ", line[6]>>
  ELSE line

AsLineComments(lines) == [n \in 1..Len(lines) |-> AsLineComment(lines[n])]

\* C26: a line `/* doxy-ignore <kind> */` or `/* doxy-ignore-line <kind> */`
\* with a valid kind yields the same suppression range as the `//` form of the
\* directive on that line: the file's ranges are those of the file with each
\* such line written as a single-line comment.
C26_BlockCommentForms ==
  inline.parsed =>
    RangesOf(inline.suppressions) =
      RangesOf(parseInlineSuppressions(Join(AsLineComments(SourceLines))))

\* ------------------------------------------ inline suppressions: nesting

\* A doxy-ignore-start that opens a block: one of a valid kind (a start of
\* unknown kind opens nothing).
Opens(line) == IsBlockStart(line) /\ CarriedKind(line, "doxy-ignore-start") \in VALID_KINDS

\* Blocks opened less blocks closed over the lines a..b.
Depth(lines, a, b) ==
  Cardinality({n \in a..b : Opens(lines[n])}) - Cardinality({n \in a..b : IsBlockEnd(lines[n])})

\* Whether the end on line e closes the start on line s as a bracket does: the
\* lines in between open and close their own blocks only.
ClosesAsBracket(lines, s, e) ==
  /\ s < e /\ Opens(lines[s]) /\ IsBlockEnd(lines[e])
  /\ Depth(lines, s + 1, e - 1) = 0
  /\ \A m \in (s + 1)..(e - 1) : Depth(lines, s + 1, m) >= 0

\* The suppressions that come from blocks: those of more than one line.
BlockSuppressions == SelectSeq(inline.suppressions, LAMBDA sup : sup.startLine # sup.endLine)

\* C27: block directives are matched like brackets over the lines of a file: the
\* block suppressions are exactly the pairs (start, end) in which the end closes
\* the most recently opened start that is still open, one suppression a pair; an
\* end with no open block and a start that is never closed produce nothing; and
\* every suppression has startLine <= endLine.
C27_BracketMatching ==
  inline.parsed =>
    /\ \A i \in 1..Len(inline.suppressions) :
         inline.suppressions[i].startLine <= inline.suppressions[i].endLine
    /\ \A i \in 1..Len(BlockSuppressions) :
         ClosesAsBracket(SourceLines, BlockSuppressions[i].startLine,
                         BlockSuppressions[i].endLine)
    /\ \A s, e \in 1..Len(SourceLines) :
         ClosesAsBracket(SourceLines, s, e) =>
           Cardinality({i \in 1..Len(BlockSuppressions) :
                          RangeOf(BlockSuppressions[i]) =
                            Range(CarriedKind(SourceLines[s], "doxy-ignore-start"), s, e)}) = 1
    /\ \A i, j \in 1..Len(BlockSuppressions) :
         (i # j) => /\ BlockSuppressions[i].startLine # BlockSuppressions[j].startLine
                    /\ BlockSuppressions[i].endLine # BlockSuppressions[j].endLine

\* Two nested blocks, the inner closed first, in a parsed file.
C27_Witness ==
  /\ inline.parsed
  /\ \E i, j \in 1..Len(inline.suppressions) :
       /\ i < j
       /\ inline.suppressions[j].startLine < inline.suppressions[i].startLine
       /\ inline.suppressions[i].startLine < inline.suppressions[i].endLine
       /\ inline.suppressions[i].endLine < inline.suppressions[j].endLine

\* ------------------------------------------------ the store: its packages

\* coveredPackages(): [...this.packages], as the set of its elements
coveredPackages(st) == st.packages

\* hasPackage(packageName): this.packages.has(packageName)
hasPackage(st, packageName) == packageName \in st.packages

\* Whether getApiSpec(packageName, exportName, v) is defined on the loaded store.
LoadedHas(packageName, exportName) == MapHas(loading.specs, Key(packageName, exportName))

\* C28: in the store loadAuthorityFromDir builds, whenever getApiSpec(p, e, v) is
\* defined, hasPackage(p) is true and p is among coveredPackages().
C28_SpecsOfCoveredPackages ==
  loading.outcome = "store" =>
    \A p \in {React, Next_}, e \in {Fn, Other} :
      LoadedHas(p, e) => hasPackage(loading, p) /\ p \in coveredPackages(loading)

\* ------------------------------------------- import resolver: usage sites

\* The site step 2 records for the n-th call expression.
SiteOfCall(n) ==
  [location |-> ast.callExpressions[n].location,
   argCount |-> Some(ast.callExpressions[n].argCount),
   argNames |-> IF Len(ast.callExpressions[n].argNames) > 0
                THEN Some(ast.callExpressions[n].argNames) ELSE None]

\* Whether the sites are those of call expressions taken in the order of the AST.
InCallOrder(sites) ==
  \E pick \in [1..Len(sites) -> 1..Len(ast.callExpressions)] :
    /\ \A i \in 1..Len(sites) : sites[i] = SiteOfCall(pick[i])
    /\ \A i, j \in 1..Len(sites) : i < j => pick[i] < pick[j]

\* Whether the usage is an import-only one: a single site, with no argCount and
\* no argNames, at the location of an import statement.
IsImportOnly(usage) ==
  /\ Len(usage.usageSites) = 1
  /\ usage.usageSites[1].argCount = None
  /\ usage.usageSites[1].argNames = None
  /\ \E i \in 1..Len(ast.imports) : usage.usageSites[1].location = ast.imports[i].location

\* C29: every SymbolUsage resolveImports returns has at least one usage site; its
\* sites are those of call expressions in the order of the AST, or it is an
\* import-only usage: a usage whose only site lacks an argCount sits at an
\* import statement.
C29_UsageSites ==
  resolution.done =>
    \A u \in 1..Len(resolution.usages) :
      LET usage == resolution.usages[u]
      IN /\ Len(usage.usageSites) >= 1
         /\ InCallOrder(usage.usageSites) \/ IsImportOnly(usage)
         /\ (Len(usage.usageSites) = 1 /\ usage.usageSites[1].argCount = None)
              => IsImportOnly(usage)

\* A usage of two call sites next to an import-only usage.
C29_Witness ==
  /\ resolution.done
  /\ \E u, w \in 1..Len(resolution.usages) :
       /\ Len(resolution.usages[u].usageSites) = 2
       /\ resolution.usages[u].usageSites[1] # resolution.usages[u].usageSites[2]
       /\ IsImportOnly(resolution.usages[w])

\* ------------------------------------------------- repo context: tsconfig

\* A path is the sequence of its segments; the extension .json is a token of
\* its own after the last segment.  The value of `extends` is a sequence of the
\* same kind ("./base" is <<".", "base">>), the empty string the empty one.

\* join(root, "tsconfig.json")
TsconfigPath(root) == root \o <<"tsconfig", ".json">>

\* dirname(tsconfigPath)
dirname(path) ==
  IF Len(path) > 0 /\ path[Len(path)] = ".json"
  THEN SubSeq(path, 1, Len(path) - 2) ELSE SubSeq(path, 1, Len(path) - 1)

\* resolve(dir, ...segments): "." stays, ".." goes up, a name goes down.
RECURSIVE ResolvePath(_, _)
ResolvePath(dir, segments) ==
  IF segments = <<>> THEN dir
  ELSE IF Head(segments) = "." THEN ResolvePath(dir, Tail(segments))
  ELSE IF Head(segments) = ".."
       THEN ResolvePath(SubSeq(dir, 1, Len(dir) - 1), Tail(segments))
  ELSE ResolvePath(Append(dir, Head(segments)), Tail(segments))

\* if (!parentPath.endsWith(".json")) parentPath += ".json"
WithJson(path) ==
  IF Len(path) > 0 /\ path[Len(path)] = ".json" THEN path ELSE Append(path, ".json")

\* The path `extends` names, seen from the file that holds it.
ParentPath(tsconfigPath, extends) ==
  IF Head(extends) \in {".", ".."}
  THEN WithJson(ResolvePath(dirname(tsconfigPath), extends))
  ELSE WithJson(ResolvePath(Append(dirname(tsconfigPath), "node_modules"), extends))

\* {}
EmptyTsconfig == [extends |-> None, compilerOptions |-> None]

\* readFile, stripJsonComments and JSON.parse of the file at a path: the
\* RawTsconfig, or nothing when one of them throws.
ReadRaw(files, path) ==
  IF path \in DOMAIN files /\ files[path].readable
  THEN Some([extends |-> files[path].extends,
             compilerOptions |-> files[path].compilerOptions])
  ELSE None

\* { compilerOptions: { ...raw.compilerOptions, ...parent.compilerOptions } }:
\* the parent spread last.
MergeParentLast(parent, raw) ==
  [extends |-> None,
   compilerOptions |-> Some(Spread(Spread(<<>>, raw.compilerOptions), parent.compilerOptions))]

\* { compilerOptions: { ...parent.compilerOptions, ...raw.compilerOptions } }
MergeTsconfig(parent, raw) ==
  [extends |-> None,
   compilerOptions |-> Some(Spread(Spread(<<>>, parent.compilerOptions), raw.compilerOptions))]

\* merged.compilerOptions?.<option>
OptionOf(merged, option) ==
  IF IsSome(merged.compilerOptions) /\ MapHas(Get(merged.compilerOptions), option)
  THEN Some(MapGet(Get(merged.compilerOptions), option)) ELSE None

\* The TsconfigInfo readTsconfig makes of the merged configuration.
TsconfigInfoOf(merged) ==
  [paths |-> OptionOf(merged, "paths"),
   baseUrl |-> OptionOf(merged, "baseUrl"),
   jsx |-> OptionOf(merged, "jsx")]

\* readTsconfig(root): the call of readTsconfigWithExtends on root/tsconfig.json
\* with a fresh `seen`.
ReadTsconfig ==
  /\ tsfiles.outcome = "none"
  /\ tsfiles' = [tsfiles EXCEPT !.outcome = "reading",
                                !.path = Some(TsconfigPath(<<"repo">>)),
                                !.seen = {}, !.frames = <<>>]
  /\ UNCHANGED <<store, query, resolved, ast, tracked, resolution, analysis, ids, inline,
                 loading, hashed, contexts, depmap, lockfile, cache, names>>

\* One call of readTsconfigWithExtends, up to its return or to the call for the
\* parent: a path seen before and a file that cannot be read or parsed return
\* {}, a file without `extends` returns itself.
ReadTsconfigWithExtends ==
  /\ tsfiles.outcome = "reading"
  /\ LET normalizedPath == Get(tsfiles.path)
         raw == ReadRaw(tsfiles.files, normalizedPath)
     IN IF normalizedPath \in tsfiles.seen
        THEN tsfiles' = [tsfiles EXCEPT !.outcome = "merging", !.returned = EmptyTsconfig]
        ELSE IF ~IsSome(raw)
        THEN tsfiles' = [tsfiles EXCEPT !.outcome = "merging", !.returned = EmptyTsconfig,
                                        !.seen = @ \cup {normalizedPath},
                                        !.reads = Append(@, normalizedPath)]
        ELSE IF ~Truthy(Get(raw).extends)
        THEN tsfiles' = [tsfiles EXCEPT !.outcome = "merging", !.returned = Get(raw),
                                        !.seen = @ \cup {normalizedPath},
                                        !.reads = Append(@, normalizedPath)]
        ELSE tsfiles' = [tsfiles EXCEPT
                           !.seen = @ \cup {normalizedPath},
                           !.reads = Append(@, normalizedPath),
                           !.frames = Append(@, Get(raw)),
                           !.path = Some(ParentPath(normalizedPath, Get(Get(raw).extends)))]
  /\ UNCHANGED <<store, query, resolved, ast, tracked, resolution, analysis, ids, inline,
                 loading, hashed, contexts, depmap, lockfile, cache, names>>

\* The return of the call for the parent into the call that waits for it: the
\* merge of the two.
MergeWithParent ==
  /\ tsfiles.outcome = "merging"
  /\ Len(tsfiles.frames) > 0
  /\ tsfiles' = [tsfiles EXCEPT
                   !.returned = MergeTsconfig(tsfiles.returned,
                                              tsfiles.frames[Len(tsfiles.frames)]),
                   !.frames = SubSeq(@, 1, Len(@) - 1)]
  /\ UNCHANGED <<store, query, resolved, ast, tracked, resolution, analysis, ids, inline,
                 loading, hashed, contexts, depmap, lockfile, cache, names>>

\* The return of readTsconfig.
ReturnTsconfigInfo ==
  /\ tsfiles.outcome = "merging"
  /\ Len(tsfiles.frames) = 0
  /\ tsfiles' = [tsfiles EXCEPT !.outcome = "returned",
                                !.result = TsconfigInfoOf(tsfiles.returned)]
  /\ UNCHANGED <<store, query, resolved, ast, tracked, resolution, analysis, ids, inline,
                 loading, hashed, contexts, depmap, lockfile, cache, names>>

NextTsconfig ==
  ReadTsconfig \/ ReadTsconfigWithExtends \/ MergeWithParent \/ ReturnTsconfigInfo

\* The files of a project: tsconfig.json, base.json next to it and pkg.json under
\* node_modules, each unreadable or an object with or without `extends` and
\* compilerOptions.  The values of `extends` make chains, a file that extends
\* itself, two and three files that extend each other, and parents that are
\* missing.
RootTsconfig == <<"repo", "tsconfig", ".json">>
BaseTsconfig == <<"repo", "base", ".json">>
PkgTsconfig == <<"repo", "node_modules", "pkg", ".json">>
TsconfigPaths == {RootTsconfig, BaseTsconfig, PkgTsconfig}

ExtendsValues ==
  {None, Some(<<>>), Some(<<".", "base">>), Some(<<".", "tsconfig", ".json">>),
   Some(<<"pkg">>), Some(<<"..", "base">>)}

CompilerOptions ==
  {None,
   Some(<<>>),
   Some(<<Entry("jsx", <<"react">>)>>),
   Some(<<Entry("jsx", <<"react-jsx">>), Entry("paths", <<"@/*">>)>>),
   Some(<<Entry("baseUrl", <<".">>)>>),
   Some(<<Entry("baseUrl", <<"src">>), Entry("jsx", <<"preserve">>)>>)}

UnreadableTsconfig == [readable |-> FALSE, extends |-> None, compilerOptions |-> None]

TsconfigFiles ==
  {UnreadableTsconfig} \cup
    [readable : {TRUE}, extends : ExtendsValues, compilerOptions : CompilerOptions]

InitTsconfig ==
  /\ \E files \in [TsconfigPaths -> TsconfigFiles] :
       tsfiles = [NoTsfiles EXCEPT !.files = files]
  /\ IdleStore /\ IdleResolver /\ IdleAnalyzer /\ IdleIds
  /\ inline = NoInline /\ loading = NoLoading /\ hashed = <<>> /\ contexts = <<>>
  /\ depmap = NoDepmap
  /\ lockfile = NoLockfile /\ cache = NoCache /\ names = NoNames

\* Each call runs to its end: nothing but the call itself is scheduled.
SpecTsconfig == InitTsconfig /\ [][NextTsconfig]_vars /\ WF_vars(NextTsconfig)

\* --------------------------------------------------------- tsconfig: claims

\* The files `extends` leads through from a path on, each once: the walk ends at
\* a file that cannot be read, at a file without `extends` and before a file it
\* has been through.
RECURSIVE ExtendsChain(_, _, _)
ExtendsChain(files, path, chain) ==
  IF \E i \in 1..Len(chain) : chain[i] = path THEN chain
  ELSE IF path \notin DOMAIN files \/ ~files[path].readable THEN chain
  ELSE IF ~Truthy(files[path].extends) THEN Append(chain, path)
  ELSE ExtendsChain(files, ParentPath(path, Get(files[path].extends)), Append(chain, path))

\* Whether the file sets the option.
Sets(files, path, option) ==
  /\ IsSome(files[path].compilerOptions)
  /\ \E i \in 1..Len(Get(files[path].compilerOptions)) :
       Get(files[path].compilerOptions)[i].key = option

SetValue(files, path, option) ==
  LET opts == Get(files[path].compilerOptions)
  IN opts[CHOOSE i \in 1..Len(opts) : opts[i].key = option].value

\* The value of an option after inheritance: that of the nearest file of the
\* chain that sets it, the child before its parent.
Inherited(files, chain, option) ==
  LET setters == {i \in 1..Len(chain) : Sets(files, chain[i], option)}
  IN IF setters = {} THEN None
     ELSE Some(SetValue(files, chain[CHOOSE i \in setters : \A j \in setters : i <= j],
                        option))

TsconfigReturned == tsfiles.outcome = "returned"

ReadsOnce ==
  \A i, j \in 1..Len(tsfiles.reads) : tsfiles.reads[i] = tsfiles.reads[j] => i = j

InheritedResult ==
  TsconfigReturned =>
    LET chain == ExtendsChain(tsfiles.files, RootTsconfig, <<>>)
    IN /\ tsfiles.result.jsx = Inherited(tsfiles.files, chain, "jsx")
       /\ tsfiles.result.baseUrl = Inherited(tsfiles.files, chain, "baseUrl")
       /\ tsfiles.result.paths = Inherited(tsfiles.files, chain, "paths")

\* C30: readTsconfig terminates and returns a result for every `extends` graph,
\* the cyclic ones included; each tsconfig path is read at most once in a call;
\* a child's compiler option overrides the same option of its parent, and an
\* option only the parent sets is inherited.
C30_ReadTsconfigTerminates ==
  /\ <>TsconfigReturned
  /\ [](ReadsOnce /\ InheritedResult)

\* A call that has returned from two files that extend each other, the child
\* overriding an option of its parent and inheriting another.
C30_Witness ==
  /\ TsconfigReturned
  /\ Len(tsfiles.reads) = 2
  /\ tsfiles.reads[2] \in DOMAIN tsfiles.files
  /\ tsfiles.files[tsfiles.reads[2]].readable
  /\ Truthy(tsfiles.files[tsfiles.reads[2]].extends)
  /\ ParentPath(tsfiles.reads[2], Get(tsfiles.files[tsfiles.reads[2]].extends))
       = tsfiles.reads[1]
  /\ Sets(tsfiles.files, tsfiles.reads[1], "jsx")
  /\ Sets(tsfiles.files, tsfiles.reads[2], "jsx")
  /\ SetValue(tsfiles.files, tsfiles.reads[1], "jsx")
       # SetValue(tsfiles.files, tsfiles.reads[2], "jsx")
  /\ ~Sets(tsfiles.files, tsfiles.reads[1], "baseUrl")
  /\ Sets(tsfiles.files, tsfiles.reads[2], "baseUrl")
  /\ tsfiles.result.baseUrl = Some(SetValue(tsfiles.files, tsfiles.reads[2], "baseUrl"))
  /\ tsfiles.result.jsx = Some(SetValue(tsfiles.files, tsfiles.reads[1], "jsx"))

====
